---- MODULE Spec2Model ----
(***************************************************************************)
(* Emission-line fitting and BPT classification core of the galaxy         *)
(* visualisation app: utils/line_fitting.py and utils/bpt_diagrams.py.     *)
(*                                                                         *)
(* Numbers are fixed point.                                                *)
(*   wavelengths, centres, windows : 1e-5 Angstrom  (Angstrom units = 1 A) *)
(*   registry rest wavelengths     : 1e-3 Angstrom  (as written in source) *)
(*   redshift z                    : hundredths     (z100 = 100 z)         *)
(*   sample flux                   : integer flux units                    *)
(*   amplitude, continuum (result) : half flux units (FluxScale = 2), so   *)
(*                                   the median of an even window is exact *)
(*   sigma                         : 1e-1 Angstrom                         *)
(*   continuum slope               : 1e-2 flux units per Angstrom          *)
(* The nonlinear solvers (lmfit Model.fit, scipy curve_fit) are library    *)
(* code: a call is a choice among the outcomes the library can produce     *)
(* for the parameters and bounds the source hands it.                      *)
(***************************************************************************)
EXTENDS Integers, Sequences, FiniteSets, TLC

VARIABLES
    wavelength,   \* spectrum: wavelength array (strictly increasing)
    flux,         \* spectrum: flux array
    ivar,         \* spectrum: inverse-variance array
    call,         \* arguments of the single-line fit in progress / returned
    outcome,      \* what the solver did in that call ("none": not called)
    ret,          \* the LineResult returned by the call
    raised,       \* exception propagated to the caller ("none": returned)
    solverArgs,   \* the arrays that call handed to the solver
    pc,           \* "idle" before the call, "returned" after it
    nii_ha,       \* classify_object_bpt: log([NII]/Ha), thousandths
    oiii_hb,      \* classify_object_bpt: log([OIII]/Hb), thousandths
    numtype,      \* "float" (Python float) or "numpy" (np.float64) arguments
    bpt,          \* what classify_object_bpt handed back: label or exception
    line_results, \* calculate_line_ratios: its input mapping
    ratios,       \* calculate_line_ratios: its output mapping
    pcB,          \* "idle" before the BPT call, "done" after it
    request,      \* fit_multiple_lines: its arguments lines, z, ivar given
    lines,        \* the list the loop runs over (line 623 resolves None)
    loopIdx,      \* number of list elements the loop has consumed
    results,      \* the dict being built: keys in insertion order, values
    pending,      \* the LineResult of the fit in progress
    fitLog,       \* calls of fit_emission_line: <<"start"|"end", position>>
    memo,         \* what the (deterministic) solver answered, per arguments
    tasks,        \* fan-out: per list position, the state of its fit
    raisedM,      \* exception that left fit_multiple_lines ("none": none)
    pcM,          \* "idle", "loop", "fitting", "fanout", "done", "raised"
    registry,     \* the module-level dicts of line_fitting
    ncalls,       \* session: number of calls made so far
    propCall,     \* galaxy_properties: function called and its arguments
    propRet,      \* galaxy_properties: what that call returned
    pcP,          \* "idle" before the galaxy_properties call, "done" after
    injected      \* synthetic spectrum: the line put into it

fitVars == <<wavelength, flux, ivar, call, outcome, ret, raised, solverArgs, pc>>
bptVars == <<nii_ha, oiii_hb, numtype, bpt, line_results, ratios, pcB>>
multiVars == <<request, lines, loopIdx, results, pending, fitLog, memo, tasks, raisedM, pcM>>
propVars == <<registry, ncalls, propCall, propRet, pcP, injected>>
vars == <<fitVars, bptVars, multiVars, propVars>>

(***************************************************************************)
(* Units and bounds                                                        *)
(***************************************************************************)
Angstrom == 100 * 1000
FluxScale == 1 + 1
MaxSamples == 8

(***************************************************************************)
(* Line registry (src/utils/line_fitting.py:438-489), milli-Angstrom       *)
(***************************************************************************)
EMISSION_LINES ==
    [OVI_1034 |-> 1033820, Lyalpha |-> 1215240, NV_1241 |-> 1240810,
     OI_1306 |-> 1305530, CII_1335 |-> 1335310, SiIV_1398 |-> 1397610,
     SiIV_OIV_1400 |-> 1399800, CIV_1549 |-> 1549480, HeII_1640 |-> 1640400,
     OIII_1666 |-> 1665850, AlIII_1857 |-> 1857400, CIII_1909 |-> 1908734,
     CII_2326 |-> 2326000, NeIV_2439 |-> 2439500, MgII_2799 |-> 2799117,
     NeV_3346 |-> 3346790, NeVI_3427 |-> 3426850, OII_3727 |-> 3727092,
     OII_3729 |-> 3729875, HeI_3889 |-> 3889000, SII_4072 |-> 4072300,
     Hdelta |-> 4102890, Hgamma |-> 4341680, OIII_4363 |-> 4364436,
     Hbeta |-> 4862680, OIII_4933 |-> 4932603, OIII_4959 |-> 4960295,
     OIII_5007 |-> 5008240, OI_6300 |-> 6302046, OI_6365 |-> 6365536,
     NI_6529 |-> 6529030, NII_6548 |-> 6549860, Halpha |-> 6564610,
     NII_6583 |-> 6585270, SII_6716 |-> 6718290, SII_6731 |-> 6732670]

ABSORPTION_LINES ==
    [CaII_K |-> 3934777, CaII_H |-> 3969588, G_band |-> 4305610,
     Mg_5177 |-> 5176700, Na_D |-> 5895600, CaII_8500 |-> 8500360,
     CaII_8544 |-> 8544440, CaII_8664 |-> 8664520]

\* lines 492-544: display priority per line name
LINE_PRIORITIES ==
    [Halpha |-> 10, Lyalpha |-> 10, Hbeta |-> 9, OIII_5007 |-> 9, CIV_1549
     |-> 9, MgII_2799 |-> 9, CIII_1909 |-> 8, NII_6583 |-> 8, OII_3727 |->
     8, OIII_4959 |-> 7, Hgamma |-> 6, NV_1241 |-> 7, SII_6716 |-> 6,
     SII_6731 |-> 6, NII_6548 |-> 6, Hdelta |-> 5, OII_3729 |-> 5, OI_6300
     |-> 4, OIII_4363 |-> 4, HeI_3889 |-> 3, OVI_1034 |-> 3, OIII_4933 |->
     3, OI_6365 |-> 3, NI_6529 |-> 2, SII_4072 |-> 2, HeII_1640 |-> 5,
     OI_1306 |-> 2, CII_1335 |-> 2, SiIV_1398 |-> 4, SiIV_OIV_1400 |-> 4,
     OIII_1666 |-> 2, AlIII_1857 |-> 2, CII_2326 |-> 2, NeIV_2439 |-> 3,
     NeV_3346 |-> 3, NeVI_3427 |-> 3, Na_D |-> 7, CaII_K |-> 6, CaII_H |->
     6, Mg_5177 |-> 5, G_band |-> 5, CaII_8500 |-> 4, CaII_8544 |-> 4,
     CaII_8664 |-> 4]

\* lines 547-591: display colour per line name
LINE_COLORS ==
    [Halpha |-> "#FF0000", Hbeta |-> "#0000FF", Hgamma |-> "#00BFFF",
     Hdelta |-> "#87CEEB", OII_3727 |-> "#00FF00", OII_3729 |-> "#32CD32",
     OIII_4363 |-> "#FFA500", OIII_4933 |-> "#FF7F00", OIII_4959 |->
     "#FF8C00", OIII_5007 |-> "#FF6600", OI_6300 |-> "#FFD700", OI_6365 |->
     "#DAA520", OIII_1666 |-> "#FFA07A", OI_1306 |-> "#F0E68C", OVI_1034
     |-> "#FFFFE0", NII_6548 |-> "#FF1493", NII_6583 |-> "#FF00FF", NI_6529
     |-> "#FF69B4", NV_1241 |-> "#DB7093", SII_6716 |-> "#8B008B", SII_6731
     |-> "#9932CC", SII_4072 |-> "#BA55D3", CIV_1549 |-> "#00CED1",
     CIII_1909 |-> "#00FFFF", CII_1335 |-> "#40E0D0", CII_2326 |->
     "#48D1CC", SiIV_1398 |-> "#4169E1", SiIV_OIV_1400 |-> "#4682B4",
     Lyalpha |-> "#E6E6FA", MgII_2799 |-> "#20B2AA", HeI_3889 |->
     "#FFB6C1", HeII_1640 |-> "#FFC0CB", AlIII_1857 |-> "#B0C4DE",
     NeIV_2439 |-> "#FF6347", NeV_3346 |-> "#FF4500", NeVI_3427 |->
     "#DC143C"]

\* the module-level dicts as loaded when line_fitting is imported
LoadedRegistry ==
    [EMISSION_LINES |-> EMISSION_LINES, ABSORPTION_LINES |-> ABSORPTION_LINES,
     LINE_PRIORITIES |-> LINE_PRIORITIES, LINE_COLORS |-> LINE_COLORS]

(***************************************************************************)
(* numpy helpers                                                           *)
(***************************************************************************)
\* arr[mask]: the elements at the indices of mask, in array order (a copy)
Take(arr, mask) ==
    LET F[i \in 0..Len(arr)] ==
            IF i = 0 THEN <<>>
            ELSE IF i \in mask THEN Append(F[i - 1], arr[i]) ELSE F[i - 1]
    IN F[Len(arr)]

\* insertion of v into an ascending sequence
Insert(s, v) ==
    LET k == Cardinality({i \in 1..Len(s) : s[i] <= v})
    IN SubSeq(s, 1, k) \o <<v>> \o SubSeq(s, k + 1, Len(s))

Sorted(s) ==
    LET F[i \in 0..Len(s)] == IF i = 0 THEN <<>> ELSE Insert(F[i - 1], s[i])
    IN F[Len(s)]

\* np.median, in half flux units: middle element, or mean of the middle two
Median2(s) ==
    LET t == Sorted(s)
        n == Len(s)
    IN IF n % 2 = 1 THEN FluxScale * t[(n + 1) \div 2]
       ELSE t[n \div 2] + t[n \div 2 + 1]

\* np.max
MaxOf(s) == CHOOSE m \in {s[i] : i \in 1..Len(s)} : \A i \in 1..Len(s) : s[i] <= m

\* floor of the square root; hi is any number with hi * hi >= n
\* (found in two steps: the multiple of 64 below the root, then the root)
ISqrtUpTo(n, hi) ==
    LET c == CHOOSE k \in 0..(hi \div 64) :
                 (64 * k) * (64 * k) <= n /\ (64 * (k + 1)) * (64 * (k + 1)) > n
    IN CHOOSE k \in (64 * c)..(64 * c + 63) : k * k <= n /\ (k + 1) * (k + 1) > n

Abs(v) == IF v < 0 THEN -v ELSE v

(***************************************************************************)
(* IEEE specials a float field can hold                                    *)
(***************************************************************************)
PosInf == 2000000000
NegInf == -2000000000
NaN == 2000000001

\* numpy float64 division x / 0
DivByZero(x) == IF x > 0 THEN PosInf ELSE IF x < 0 THEN NegInf ELSE NaN

(***************************************************************************)
(* Fit weights: decimal floats m * 10^e, or not finite (np.sqrt of a       *)
(* negative inverse variance is nan)                                       *)
(***************************************************************************)
Weight(m, e) == [fin |-> TRUE, m |-> m, e |-> e]
NaNWeight == [fin |-> FALSE, m |-> 0, e |-> 0]

\* np.sqrt of one inverse-variance value
SqrtWeight(v) == IF v < 0 THEN NaNWeight ELSE Weight(ISqrtUpTo(v, v), 0)

\* line 129-130: weights[~np.isfinite(weights)] = 1e-10; weights[weights == 0] = 1e-10
FloorWeightLmfit(w) ==
    IF ~w.fin THEN Weight(1, -10)
    ELSE IF w.m = 0 THEN Weight(1, -10)
    ELSE w

\* line 333: weights[~np.isfinite(weights)] = 0
FloorWeightScipy(w) == IF ~w.fin THEN Weight(0, 0) ELSE w

\* lines 126-132: weights of the lmfit path; ivar None gives np.ones_like
WeightsLmfit(iv, useIvar, mask) ==
    IF useIvar
    THEN LET ivar_fit == Take(iv, mask)
         IN [i \in 1..Len(ivar_fit) |-> FloorWeightLmfit(SqrtWeight(ivar_fit[i]))]
    ELSE [i \in 1..Cardinality(mask) |-> Weight(1, 0)]

\* lines 330-335: weights of the curve_fit path; ivar None gives None (<<>>)
WeightsScipy(iv, useIvar, mask) ==
    IF useIvar
    THEN LET ivar_fit == Take(iv, mask)
         IN [i \in 1..Len(ivar_fit) |-> FloorWeightScipy(SqrtWeight(ivar_fit[i]))]
    ELSE <<>>

\* the floor assignments landing in the caller's array, as they would if
\* ivar_fit were a view of ivar
SharedAfterWeightsAliased(iv, useIvar, mask) ==
    IF useIvar
    THEN [i \in 1..Len(iv) |->
            IF i \in mask /\ (iv[i] < 0 \/ iv[i] = 0) THEN 1 ELSE iv[i]]
    ELSE iv

\* lines 127-130: ivar[mask] (a boolean mask) and np.sqrt(ivar_fit) are new
\* arrays, so the floor assignments write the private weights only; the
\* caller's ivar after the weights are built
SharedAfterWeights(iv, useIvar, mask) == iv

(***************************************************************************)
(* LineResult (src/utils/line_fitting.py:13-31)                            *)
(***************************************************************************)
LineResult(nm, c, ce, a, ae, s, se, f, fe, w, we, snr, v, ve, cont, ok) ==
    [line_name |-> nm, center |-> c, center_err |-> ce,
     amplitude |-> a, amplitude_err |-> ae, sigma |-> s, sigma_err |-> se,
     flux |-> f, flux_err |-> fe, ew |-> w, ew_err |-> we, snr |-> snr,
     velocity |-> v, velocity_err |-> ve, continuum |-> cont, success |-> ok]

\* placeholder held in ret while no call has returned
NoResult == LineResult("", 0, 0, 0, 0, 0, 0, 0, 0, 0, 0, 0, 0, 0, 0, FALSE)

(***************************************************************************)
(* Single-line fitter: window selection                                    *)
(***************************************************************************)
\* line 97 / 301: obs_wavelength = rest_wavelength * (1 + z)
\* (rest in 1e-3 A, z in hundredths, result in 1e-5 A)
ObsWavelength(rest, z100) == rest * (100 + z100)

\* line 100 / 304: the window mask (both comparisons strict)
WindowMask(wl, obs, window) ==
    {i \in 1..Len(wl) : wl[i] > obs - window /\ wl[i] < obs + window}

\* line 102 / 306: if np.sum(mask) < 5
MinWindowSamples == 5

\* the threshold off by one
TooFewSamplesBelowFour(mask) == Cardinality(mask) < MinWindowSamples - 1

TooFewSamples(mask) == Cardinality(mask) < MinWindowSamples

\* lines 103-120 and 307-324: the early return
InsufficientResult(nm, obs) ==
    LineResult(nm, obs, 0, 0, 0, 0, 0, 0, 0, 0, 0, 0, 0, 0, 0, FALSE)

\* an except handler that reports the flux of a typical line
ExceptResultWithFlux(nm, obs, flux_fit) ==
    LineResult(nm, obs, 0, 0, 0, 0, 0, 601, 0, 0, 0, 0, 0, 0,
               IF Len(flux_fit) > 0 THEN Median2(flux_fit) ELSE 0, FALSE)

\* lines 231-248: the except handler of the lmfit path
ExceptResultLmfit(nm, obs, flux_fit) ==
    LineResult(nm, obs, 0, 0, 0, 0, 0, 0, 0, 0, 0, 0, 0, 0,
               IF Len(flux_fit) > 0 THEN Median2(flux_fit) ELSE 0, FALSE)

\* lines 416-433: the except handler of the curve_fit path
ExceptResultScipy(nm, obs, continuum_guess) ==
    LineResult(nm, obs, 0, 0, 0, 0, 0, 0, 0, 0, 0, 0, 0, 0, continuum_guess, FALSE)

\* a handler that names one exception type only
CaughtValueErrorOnly(exc) == exc = "ValueError"

\* line 229 / 414: except Exception catches every solver or arithmetic error
Caught(exc) == exc \in {"ValueError", "RuntimeError", "ZeroDivisionError"}

(***************************************************************************)
(* The solvers.  A solver result is                                        *)
(*   kind "ok"           : converged, with the fitted parameters           *)
(*   kind "notconverged" : lmfit's result.success is False                 *)
(*   kind "raise"        : the library raised exc (NaN in the data, maxfev *)
(*                         exceeded, ...)                                  *)
(* center in 1e-5 A, amplitude / intercept / resid (std of the residuals)  *)
(* in half flux units, sigma in 1e-1 A, slope in 1e-2 flux per A; hasErr   *)
(* is whether the covariance gave standard errors (stderr is None if not). *)
(***************************************************************************)
SolverResult(kind, exc, c, a, s, icpt, slope, hasErr, resid) ==
    [kind |-> kind, exc |-> exc, center |-> c, amplitude |-> a, sigma |-> s,
     intercept |-> icpt, slope |-> slope, hasErr |-> hasErr, resid |-> resid]

NotCalled == SolverResult("none", "none", 0, 0, 0, 0, 0, FALSE, 0)
NotConverged == SolverResult("notconverged", "none", 0, 0, 0, 0, 0, FALSE, 0)
Raises(exc) == SolverResult("raise", exc, 0, 0, 0, 0, 0, FALSE, 0)

\* parameter vectors a least-squares solver may stop at, before any bound
CenterOffsets == {-12 * Angstrom, -10 * Angstrom, 3 * Angstrom}
AmplitudeValues == {-6, 0, 8}
SigmaValues == {-30, 1, 5, 30, 150, 200}
InterceptValues == {-2, 0, 4}
SlopeValues == {-2, -1, 0}

Converged(obs) ==
    {SolverResult("ok", "none", obs + dc, a, s, icpt, sl, he, rs) :
        dc \in CenterOffsets, a \in AmplitudeValues, s \in SigmaValues,
        icpt \in InterceptValues, sl \in SlopeValues, he \in BOOLEAN,
        rs \in {0, 1}}

\* lines 153-165: the bounds set on the lmfit parameters
SlopeBound == 1
CenterBound == 10
SigmaMin == 5
SigmaMax == 150

LmfitBounds(o, obs) ==
    /\ o.slope >= -SlopeBound /\ o.slope <= SlopeBound
    /\ o.intercept >= 0
    /\ o.center >= obs - CenterBound * Angstrom
    /\ o.center <= obs + CenterBound * Angstrom
    /\ o.amplitude >= 0
    /\ o.sigma >= SigmaMin /\ o.sigma <= SigmaMax

\* line 169: model.fit(flux_fit, params, x=wave_fit, weights=weights,
\* method='leastsq'); lmfit keeps every parameter inside its bounds
LmfitSolve(obs) ==
    {o \in Converged(obs) : LmfitBounds(o, obs)}
        \cup {NotConverged, Raises("ValueError")}

\* lines 345-353 / 361-369: curve_fit(gaussian, ...) is given no bounds; it
\* returns popt = (amplitude, center, sigma[, continuum]) and pcov, or raises
\* RuntimeError (maxfev) or ValueError (non-finite data)
CurveFitSolve(obs, fit_continuum) ==
    {o \in Converged(obs) :
        /\ o.slope = 0 /\ o.hasErr
        /\ (~fit_continuum => o.intercept = 0)}
        \cup {Raises("RuntimeError"), Raises("ValueError")}

\* standard errors the covariance gives when it gives any
CenterStderr == Angstrom \div 2
AmplitudeStderr == 1
SigmaStderr == 2
ContinuumStderr == 1

(***************************************************************************)
(* Derived quantities of a converged fit                                   *)
(***************************************************************************)
Sqrt2PiMilli == 2507
PiMilli == 3142
C_KMS == 299792

\* lines 186-191 / 376: integrated flux, in half flux x 1e-1 A
IntegratedFlux(a, s, model_type) ==
    IF model_type = "lorentzian" THEN (a * s * PiMilli) \div 1000
    ELSE (a * s * Sqrt2PiMilli) \div 1000

\* lines 193-195 / 377-379
FluxErr(fi, a, ae, s, se) ==
    IF a > 0 /\ s > 0
    THEN (fi * ISqrtUpTo((s * ae) * (s * ae) + (a * se) * (a * se),
                         s * ae + a * se)) \div (a * s)
    ELSE 0

\* line 198 / 382: equivalent width, in 1e-2 A
EquivalentWidth(fi, continuum) ==
    IF continuum > 0 THEN -((fi * 10) \div continuum) ELSE 0

\* line 199
EwErrLmfit(ew, fe, fi) == IF fi > 0 THEN (Abs(ew) * fe) \div fi ELSE 0

\* lines 383-385
EwErrScipy(ew, fe, fi, ce, continuum) ==
    IF fi > 0 /\ continuum > 0
    THEN LET p == (Abs(ew) * fe) \div fi
             q == (Abs(ew) * ce) \div continuum
         IN ISqrtUpTo(p * p + q * q, p + q)
    ELSE 0

\* line 203: guarded division
SnrLmfit(a, resid) == IF resid > 0 THEN a \div resid ELSE 0

\* line 388: unguarded numpy division
SnrScipy(a, resid) == IF resid = 0 THEN DivByZero(a) ELSE a \div resid

\* lines 206-208 / 391-393: km/s
Velocity(center, obs) ==
    (C_KMS * ((center - obs) \div 1000)) \div (obs \div 1000)

VelocityErr(center_err, obs) ==
    (C_KMS * (center_err \div 1000)) \div (obs \div 1000)

\* line 183: continuum at line center = intercept + slope * center
ContinuumAt(icpt, slope, center) == icpt + (slope * center) \div 5000000

\* the same with each stderr passed on as the solver gave it, a missing one
\* (None) shown as -1
SuccessResultRawStderr(nm, obs, model_type, o) ==
    LET ce == IF o.hasErr THEN CenterStderr ELSE -1
        ae == IF o.hasErr THEN AmplitudeStderr ELSE -1
        se == IF o.hasErr THEN SigmaStderr ELSE -1
        continuum == ContinuumAt(o.intercept, o.slope, o.center)
        fi == IntegratedFlux(o.amplitude, o.sigma, model_type)
        fe == FluxErr(fi, o.amplitude, ae, o.sigma, se)
        ew == EquivalentWidth(fi, continuum)
    IN LineResult(nm, o.center, ce, o.amplitude, ae, o.sigma, se, fi, fe,
                  ew, EwErrLmfit(ew, fe, fi), SnrLmfit(o.amplitude, o.resid),
                  Velocity(o.center, obs), VelocityErr(ce, obs),
                  continuum, TRUE)

\* lines 174-227: the LineResult of a converged lmfit fit
SuccessResultLmfit(nm, obs, model_type, o) ==
    LET ce == IF o.hasErr THEN CenterStderr ELSE 0
        ae == IF o.hasErr THEN AmplitudeStderr ELSE 0
        se == IF o.hasErr THEN SigmaStderr ELSE 0
        continuum == ContinuumAt(o.intercept, o.slope, o.center)
        fi == IntegratedFlux(o.amplitude, o.sigma, model_type)
        fe == FluxErr(fi, o.amplitude, ae, o.sigma, se)
        ew == EquivalentWidth(fi, continuum)
    IN LineResult(nm, o.center, ce, o.amplitude, ae, o.sigma, se, fi, fe,
                  ew, EwErrLmfit(ew, fe, fi), SnrLmfit(o.amplitude, o.resid),
                  Velocity(o.center, obs), VelocityErr(ce, obs),
                  continuum, TRUE)

\* lines 354-412: the LineResult of a converged curve_fit fit
SuccessResultScipy(nm, obs, fit_continuum, continuum_guess, o) ==
    LET continuum == IF fit_continuum THEN o.intercept ELSE continuum_guess
        perr3 == IF fit_continuum THEN ContinuumStderr ELSE 0
        fi == IntegratedFlux(o.amplitude, o.sigma, "gaussian")
        fe == FluxErr(fi, o.amplitude, AmplitudeStderr, o.sigma, SigmaStderr)
        ew == EquivalentWidth(fi, continuum)
    IN LineResult(nm, o.center, CenterStderr, o.amplitude, AmplitudeStderr,
                  o.sigma, SigmaStderr, fi, fe, ew,
                  EwErrScipy(ew, fe, fi, perr3, continuum),
                  SnrScipy(o.amplitude, o.resid),
                  Velocity(o.center, obs), VelocityErr(CenterStderr, obs),
                  continuum, TRUE)

\* what a call hands back: a LineResult, or an exception
Returned(r) == [ret |-> r, raised |-> "none"]
Propagated(exc) == [ret |-> NoResult, raised |-> exc]

\* lines 167-248: try: fit, raise ValueError if not converged, derive;
\* except Exception: the failure record
TryLmfit(nm, obs, flux_fit, model_type, o) ==
    LET exc == IF o.kind = "notconverged" THEN "ValueError" ELSE o.exc
    IN IF o.kind = "ok"
       THEN Returned(SuccessResultLmfit(nm, obs, model_type, o))
       ELSE IF Caught(exc)
            THEN Returned(ExceptResultLmfit(nm, obs, flux_fit))
            ELSE Propagated(exc)

\* lines 338-433: the same for curve_fit; continuum_guess = np.median(flux_fit)
TryScipy(nm, obs, flux_fit, fit_continuum, o) ==
    LET continuum_guess == Median2(flux_fit)
    IN IF o.kind = "ok"
       THEN Returned(SuccessResultScipy(nm, obs, fit_continuum, continuum_guess, o))
       ELSE IF Caught(o.exc)
            THEN Returned(ExceptResultScipy(nm, obs, continuum_guess))
            ELSE Propagated(o.exc)

\* the arrays handed to the solver: x=wave_fit, data=flux_fit, weights
SolverArgs(wl, fl, w, mask) == [x |-> Take(wl, mask), data |-> Take(fl, mask), weights |-> w]
NoSolverArgs == [x |-> <<>>, data |-> <<>>, weights |-> <<>>]

\* lines 59-248: fit_emission_line_lmfit, given what the solver does (o)
FitEmissionLineLmfitResult(wl, fl, rest, nm, z100, window, model_type, o) ==
    LET obs == ObsWavelength(rest, z100)
        mask == WindowMask(wl, obs, window)
    IN IF TooFewSamples(mask)
       THEN Returned(InsufficientResult(nm, obs))
       ELSE TryLmfit(nm, obs, Take(fl, mask), model_type, o)

\* lines 299-433: the curve_fit body of fit_emission_line
FitEmissionLineScipyResult(wl, fl, rest, nm, z100, window, fit_continuum, o) ==
    LET obs == ObsWavelength(rest, z100)
        mask == WindowMask(wl, obs, window)
    IN IF TooFewSamples(mask)
       THEN Returned(InsufficientResult(nm, obs))
       ELSE TryScipy(nm, obs, Take(fl, mask), fit_continuum, o)

\* lines 294-297: use_lmfit delegates with the default model_type
DefaultModelType == "gaussian"

(***************************************************************************)
(* Spectra and arguments the single-line specification draws from          *)
(***************************************************************************)
GridStart == 6545 * Angstrom
GridSteps == {5 * Angstrom, 50 * Angstrom}
FluxShapes == {"flat", "bump", "ramp"}
IvarShapes == {"ones", "mixed"}

Grid(step) == [i \in 1..MaxSamples |-> GridStart + (i - 1) * step]

FluxOf(shape) ==
    [i \in 1..MaxSamples |->
        IF shape = "flat" THEN 2
        ELSE IF shape = "ramp" THEN i
        ELSE IF i = 4 THEN 9 ELSE IF i \in {3, 5} THEN 5 ELSE 2]

IvarOf(shape) ==
    [i \in 1..MaxSamples |->
        IF shape = "ones" THEN 1
        ELSE IF i % 4 = 1 THEN 4 ELSE IF i % 4 = 2 THEN 0
        ELSE IF i % 4 = 3 THEN -1 ELSE 1]

LineChoices == {"Halpha", "NII_6548", "Hbeta"}
ZChoices == {0, 35}
DefaultWindow == 20
WindowChoices == {DefaultWindow * Angstrom, 10 * Angstrom}
ModelTypes == {"gaussian", "lorentzian", "voigt"}

CallArgs(fn, nm, z100, window, use_lmfit, fit_continuum, model_type, useIvar) ==
    [fn |-> fn, line_name |-> nm, rest |-> EMISSION_LINES[nm], z100 |-> z100,
     window |-> window, use_lmfit |-> use_lmfit,
     fit_continuum |-> fit_continuum, model_type |-> model_type,
     useIvar |-> useIvar]

NoCall == [fn |-> "none", line_name |-> "", rest |-> 0, z100 |-> 0,
           window |-> 0, use_lmfit |-> FALSE, fit_continuum |-> FALSE,
           model_type |-> "", useIvar |-> FALSE]

(***************************************************************************)
(* Specification of the single-line fitter: one call on one spectrum       *)
(***************************************************************************)
FitInit ==
    /\ \E step \in GridSteps : wavelength = Grid(step)
    /\ \E shape \in FluxShapes : flux = FluxOf(shape)
    /\ \E shape \in IvarShapes : ivar = IvarOf(shape)
    /\ call = NoCall
    /\ outcome = NotCalled
    /\ ret = NoResult
    /\ raised = "none"
    /\ solverArgs = NoSolverArgs
    /\ pc = "idle"

\* the lmfit path on arguments a, for either entry point
RunLmfit(a) ==
    LET obs == ObsWavelength(a.rest, a.z100)
        mask == WindowMask(wavelength, obs, a.window)
    IN /\ call' = a
       /\ IF TooFewSamples(mask)
          THEN /\ outcome' = NotCalled
               /\ solverArgs' = NoSolverArgs
               /\ ret' = InsufficientResult(a.line_name, obs)
               /\ raised' = "none"
          ELSE \E o \in LmfitSolve(obs) :
                 LET r == FitEmissionLineLmfitResult(wavelength, flux, a.rest,
                             a.line_name, a.z100, a.window, a.model_type, o)
                 IN /\ outcome' = o
                    /\ solverArgs' = SolverArgs(wavelength, flux,
                           WeightsLmfit(ivar, a.useIvar, mask), mask)
                    /\ ret' = r.ret
                    /\ raised' = r.raised
       /\ pc' = "returned"
       /\ ivar' = IF TooFewSamples(mask) THEN ivar
                  ELSE SharedAfterWeights(ivar, a.useIvar, mask)
       /\ UNCHANGED <<wavelength, flux>>
       /\ UNCHANGED <<bptVars, multiVars, propVars>>

\* the curve_fit path on arguments a
RunScipy(a) ==
    LET obs == ObsWavelength(a.rest, a.z100)
        mask == WindowMask(wavelength, obs, a.window)
    IN /\ call' = a
       /\ IF TooFewSamples(mask)
          THEN /\ outcome' = NotCalled
               /\ solverArgs' = NoSolverArgs
               /\ ret' = InsufficientResult(a.line_name, obs)
               /\ raised' = "none"
          ELSE \E o \in CurveFitSolve(obs, a.fit_continuum) :
                 LET r == FitEmissionLineScipyResult(wavelength, flux, a.rest,
                             a.line_name, a.z100, a.window, a.fit_continuum, o)
                 IN /\ outcome' = o
                    /\ solverArgs' = SolverArgs(wavelength, flux,
                           WeightsScipy(ivar, a.useIvar, mask), mask)
                    /\ ret' = r.ret
                    /\ raised' = r.raised
       /\ pc' = "returned"
       /\ ivar' = IF TooFewSamples(mask) THEN ivar
                  ELSE SharedAfterWeights(ivar, a.useIvar, mask)
       /\ UNCHANGED <<wavelength, flux>>
       /\ UNCHANGED <<bptVars, multiVars, propVars>>

\* fit_emission_line_lmfit(wavelength, flux, ivar, rest, name, z, window, model_type)
FitEmissionLineLmfit ==
    /\ pc = "idle"
    /\ \E nm \in LineChoices, z100 \in ZChoices, window \in WindowChoices,
          model_type \in ModelTypes, useIvar \in BOOLEAN :
          RunLmfit(CallArgs("fit_emission_line_lmfit", nm, z100, window,
                            TRUE, TRUE, model_type, useIvar))

\* fit_emission_line(wavelength, flux, ivar, rest, name, z, window,
\*                   fit_continuum, use_lmfit)
FitEmissionLine ==
    /\ pc = "idle"
    /\ \E nm \in LineChoices, z100 \in ZChoices, window \in WindowChoices,
          use_lmfit \in BOOLEAN, fit_continuum \in BOOLEAN, useIvar \in BOOLEAN :
          LET a == CallArgs("fit_emission_line", nm, z100, window, use_lmfit,
                            fit_continuum, DefaultModelType, useIvar)
          IN IF use_lmfit THEN RunLmfit(a) ELSE RunScipy(a)

(***************************************************************************)
(* BPT classification (src/utils/bpt_diagrams.py).  Ratios are thousandths *)
(* of a dex; a boundary value is the exact fraction n/d with d >= 0, where *)
(* d = 0 is numpy's +inf of a division by zero.                            *)
(***************************************************************************)
Fraction(n, d) == IF d < 0 THEN [n |-> -n, d |-> -d] ELSE [n |-> n, d |-> d]

\* y < n/d and y > n/d for a thousandths value y
LessThan(y, r) == y * r.d < r.n
GreaterThan(y, r) == y * r.d > r.n

\* the pole moved to the other side of zero
kauffmann03_plus(x) == Fraction(610 * 1000 + 1300 * (x + 50), x + 50)

\* line 25: 0.61 / (nii_ha - 0.05) + 1.3
kauffmann03_line(x) == Fraction(610 * 1000 + 1300 * (x - 50), x - 50)

\* line 42: 0.61 / (nii_ha - 0.47) + 1.19
kewley01_line(x) == Fraction(610 * 1000 + 1190 * (x - 470), x - 470)

\* line 71: 1.89 * nii_ha + 0.76
liner_line(x) == Fraction(1890 * x + 760 * 1000, 1000)

Label(l) == [label |-> l, raised |-> "none"]
BptRaises(exc) == [label |-> "", raised |-> exc]
NoLabel == Label("")

\* the second and third tests in the other order
classify_liner_first(x, y, nt) ==
    IF nt = "float" /\ x \in {50, 470} THEN BptRaises("ZeroDivisionError")
    ELSE IF LessThan(y, kauffmann03_line(x)) THEN Label("Star-forming")
    ELSE IF GreaterThan(y, liner_line(x)) THEN Label("AGN (Seyfert)")
    ELSE IF LessThan(y, kewley01_line(x)) THEN Label("Composite")
    ELSE Label("LINER")

\* the second test taken above the Kewley curve instead of below it
classify_above_kewley(x, y, nt) ==
    IF nt = "float" /\ x \in {50, 470} THEN BptRaises("ZeroDivisionError")
    ELSE IF LessThan(y, kauffmann03_line(x)) THEN Label("Star-forming")
    ELSE IF GreaterThan(y, kewley01_line(x)) THEN Label("Composite")
    ELSE IF GreaterThan(y, liner_line(x)) THEN Label("AGN (Seyfert)")
    ELSE Label("LINER")

\* a classifier that keeps the label of its first call
classify_remembering(x, y, nt) ==
    IF bpt # NoLabel THEN bpt
    ELSE IF nt = "float" /\ x \in {50, 470} THEN BptRaises("ZeroDivisionError")
    ELSE IF LessThan(y, kauffmann03_line(x)) THEN Label("Star-forming")
    ELSE IF LessThan(y, kewley01_line(x)) THEN Label("Composite")
    ELSE IF GreaterThan(y, liner_line(x)) THEN Label("AGN (Seyfert)")
    ELSE Label("LINER")

\* lines 64-80; a Python float divided by 0.0 raises ZeroDivisionError, a
\* numpy scalar gives inf
classify_object_bpt(x, y, nt) ==
    IF nt = "float" /\ x \in {50, 470} THEN BptRaises("ZeroDivisionError")
    ELSE IF LessThan(y, kauffmann03_line(x)) THEN Label("Star-forming")
    ELSE IF LessThan(y, kewley01_line(x)) THEN Label("Composite")
    ELSE IF GreaterThan(y, liner_line(x)) THEN Label("AGN (Seyfert)")
    ELSE Label("LINER")

(***************************************************************************)
(* Line ratios (src/utils/bpt_diagrams.py:83-138).  Fluxes are integers    *)
(* (units of 1e-15); np.log10 is tabulated to three decimals.              *)
(***************************************************************************)
Log10Milli == <<0, 301, 477, 602, 699, 778, 845, 903, 954, 1000, 1041, 1079>>

\* np.log10(a / b), thousandths, for 1 <= a, b <= 12; equal fluxes of any
\* size divide to 1.0, whose logarithm is 0
Log10Ratio(a, b) == IF a = b THEN 0 ELSE Log10Milli[a] - Log10Milli[b]

\* the two relative errors subtracted in quadrature
RatioErrDifference(a, ea, b, eb) ==
    LET p == 10 * ea * b
        q == 10 * eb * a
    IN (434 * ISqrtUpTo(Abs(p * p - q * q), p + q)) \div (10 * a * b)

\* lines 108-110 / 118-120: 0.434 * sqrt((ea/a)^2 + (eb/b)^2), thousandths
\* (the two relative errors in thousandths)
RatioErr(a, ea, b, eb) ==
    LET p == (1000 * ea) \div a
        q == (1000 * eb) \div b
    IN (434 * ISqrtUpTo(p * p + q * q, p + q)) \div 1000

\* a dict with one more key
With(d, k, v) == [x \in DOMAIN d \cup {k} |-> IF x = k THEN v ELSE d[x]]
EmptyDict == [x \in {} |-> 0]

\* the [NII]/Halpha block storing the ratio alone
RatiosNIIWithoutErr(lr, r) ==
    IF "NII_6583" \in DOMAIN lr /\ "Halpha" \in DOMAIN lr
    THEN IF lr["NII_6583"].flux > 0 /\ lr["Halpha"].flux > 0
         THEN With(r, "NII_Ha", Log10Ratio(lr["NII_6583"].flux, lr["Halpha"].flux))
         ELSE r
    ELSE r

\* lines 101-110
RatiosNII(lr, r) ==
    IF "NII_6583" \in DOMAIN lr /\ "Halpha" \in DOMAIN lr
    THEN LET nii == lr["NII_6583"]
             ha == lr["Halpha"]
         IN IF nii.flux > 0 /\ ha.flux > 0
            THEN With(With(r, "NII_Ha", Log10Ratio(nii.flux, ha.flux)),
                      "NII_Ha_err",
                      RatioErr(nii.flux, nii.flux_err, ha.flux, ha.flux_err))
            ELSE r
    ELSE r

\* lines 112-120
RatiosOIII(lr, r) ==
    IF "OIII_5007" \in DOMAIN lr /\ "Hbeta" \in DOMAIN lr
    THEN LET oiii == lr["OIII_5007"]
             hb == lr["Hbeta"]
         IN IF oiii.flux > 0 /\ hb.flux > 0
            THEN With(With(r, "OIII_Hb", Log10Ratio(oiii.flux, hb.flux)),
                      "OIII_Hb_err",
                      RatioErr(oiii.flux, oiii.flux_err, hb.flux, hb.flux_err))
            ELSE r
    ELSE r

\* lines 122-129
RatiosSII(lr, r) ==
    IF "SII_6716" \in DOMAIN lr /\ "SII_6731" \in DOMAIN lr
       /\ "Halpha" \in DOMAIN lr
    THEN LET sii_total == lr["SII_6716"].flux + lr["SII_6731"].flux
             ha == lr["Halpha"]
         IN IF sii_total > 0 /\ ha.flux > 0
            THEN With(r, "SII_Ha", Log10Ratio(sii_total, ha.flux))
            ELSE r
    ELSE r

\* lines 131-136
RatiosOI(lr, r) ==
    IF "OI_6300" \in DOMAIN lr /\ "Halpha" \in DOMAIN lr
    THEN LET oi == lr["OI_6300"]
             ha == lr["Halpha"]
         IN IF oi.flux > 0 /\ ha.flux > 0
            THEN With(r, "OI_Ha", Log10Ratio(oi.flux, ha.flux))
            ELSE r
    ELSE r

\* lines 99-138
calculate_line_ratios(lr) ==
    RatiosOI(lr, RatiosSII(lr, RatiosOIII(lr, RatiosNII(lr, EmptyDict))))

(***************************************************************************)
(* Inputs of the BPT specifications                                        *)
(***************************************************************************)
MaxGrid == 12
GridPoints == {100 * k : k \in -MaxGrid..MaxGrid}
\* points on the curves, the poles, and the worked examples
XValues == GridPoints \cup {-699, -560, -530, -450, -140, 50, 470}
YValues == GridPoints \cup {-176, 80, 190, 300, 580, 760}

\* a LineResult as calculate_line_ratios reads it
Fitted(nm, ok, f, fe) ==
    LineResult(nm, 0, 0, 0, 0, 0, 0, f, fe, 0, 0, 0, 0, 0, 0, ok)

BptLines ==
    {"NII_6583", "Halpha", "OIII_5007", "Hbeta", "SII_6716", "SII_6731",
     "OI_6300"}

\* flux of a good fit of each line in the worked example (1e-15)
GoodFlux(nm) ==
    IF nm = "Halpha" THEN 10 ELSE IF nm = "Hbeta" THEN 3
    ELSE IF nm \in {"SII_6716", "SII_6731", "OI_6300"} THEN 1 ELSE 2

\* one line's entry: a good fit, a failed fit as the fitter returns it
\* (flux 0), or a record built by hand with success=False and a flux
EntryKinds == {"good", "failed", "failed_flux"}

Entry(nm, kind) ==
    IF kind = "good" THEN Fitted(nm, TRUE, GoodFlux(nm), 1)
    ELSE IF kind = "failed" THEN Fitted(nm, FALSE, 0, 0)
    ELSE Fitted(nm, FALSE, GoodFlux(nm), 0)

LineResultInputs ==
    UNION {[present -> EntryKinds] : present \in SUBSET BptLines}

NoRequest == [lines |-> <<>>, linesNone |-> FALSE, z100 |-> 0, useIvar |-> FALSE]
EmptyResults == [keys |-> <<>>, vals |-> EmptyDict]

MultiIdle ==
    /\ request = NoRequest /\ lines = <<>> /\ loopIdx = 0
    /\ results = EmptyResults /\ pending = NoResult /\ fitLog = <<>>
    /\ memo = EmptyDict /\ tasks = <<>> /\ raisedM = "none" /\ pcM = "idle"

NoPropCall == [fn |-> "none"]
NoPropRet == [kind |-> "none"]
NoInjection == [given |-> FALSE]

PropIdle ==
    /\ registry = LoadedRegistry /\ ncalls = 0
    /\ propCall = NoPropCall /\ propRet = NoPropRet /\ pcP = "idle"
    /\ injected = NoInjection

BptIdle ==
    /\ nii_ha = 0 /\ oiii_hb = 0 /\ numtype = "numpy" /\ bpt = NoLabel
    /\ line_results = EmptyDict /\ ratios = EmptyDict /\ pcB = "idle"

FitIdle ==
    /\ wavelength = <<>> /\ flux = <<>> /\ ivar = <<>>
    /\ call = NoCall /\ outcome = NotCalled /\ ret = NoResult
    /\ raised = "none" /\ solverArgs = NoSolverArgs /\ pc = "idle"

\* specification of classify_object_bpt: one call on a drawn point
ClassifyInit ==
    /\ FitIdle /\ MultiIdle /\ PropIdle
    /\ nii_ha \in XValues /\ oiii_hb \in YValues
    /\ numtype \in {"float", "numpy"}
    /\ bpt = NoLabel
    /\ line_results = EmptyDict /\ ratios = EmptyDict /\ pcB = "idle"

ClassifyObjectBpt ==
    /\ pcB = "idle"
    /\ bpt' = classify_object_bpt(nii_ha, oiii_hb, numtype)
    /\ pcB' = "done"
    /\ UNCHANGED <<nii_ha, oiii_hb, numtype, line_results, ratios>>
    /\ UNCHANGED <<fitVars, multiVars, propVars>>

SpecClassify == ClassifyInit /\ [][ClassifyObjectBpt]_vars

\* specification of calculate_line_ratios: one call on a drawn mapping
RatiosInit ==
    /\ FitIdle /\ MultiIdle /\ PropIdle
    /\ nii_ha = 0 /\ oiii_hb = 0 /\ numtype = "numpy" /\ bpt = NoLabel
    /\ \E kinds \in LineResultInputs :
          line_results = [nm \in DOMAIN kinds |-> Entry(nm, kinds[nm])]
    /\ ratios = EmptyDict /\ pcB = "idle"

CalculateLineRatios ==
    /\ pcB = "idle"
    /\ ratios' = calculate_line_ratios(line_results)
    /\ pcB' = "done"
    /\ UNCHANGED <<nii_ha, oiii_hb, numtype, bpt, line_results>>
    /\ UNCHANGED <<fitVars, multiVars, propVars>>

SpecRatios == RatiosInit /\ [][CalculateLineRatios]_vars

(***************************************************************************)
(* fit_multiple_lines (src/utils/line_fitting.py:594-635)                  *)
(***************************************************************************)
\* list(EMISSION_LINES.keys()): the registry's names in definition order
EmissionLineKeys ==
    <<"OVI_1034", "Lyalpha", "NV_1241", "OI_1306", "CII_1335", "SiIV_1398",
      "SiIV_OIV_1400", "CIV_1549", "HeII_1640", "OIII_1666", "AlIII_1857",
      "CIII_1909", "CII_2326", "NeIV_2439", "MgII_2799", "NeV_3346",
      "NeVI_3427", "OII_3727", "OII_3729", "HeI_3889", "SII_4072", "Hdelta",
      "Hgamma", "OIII_4363", "Hbeta", "OIII_4933", "OIII_4959", "OIII_5007",
      "OI_6300", "OI_6365", "NI_6529", "NII_6548", "Halpha", "NII_6583",
      "SII_6716", "SII_6731">>

Range(s) == {s[i] : i \in 1..Len(s)}

\* the numbers of a set in increasing order
Ascending(S) ==
    [j \in 1..Cardinality(S) |->
        CHOOSE p \in S : Cardinality({q \in S : q <= p}) = j]

\* lines 622-623: lines=None stands for every registry name
ResolveLines(req) == IF req.linesNone THEN EmissionLineKeys ELSE req.lines

\* the list walked from its end
LoopOrderReversed(ls) == [k \in 1..Len(ls) |-> Len(ls) + 1 - k]

\* line 626: for line_name in lines; the positions of the list in the order
\* the loop visits them
LoopOrder(ls) == [k \in 1..Len(ls) |-> k]

\* a membership test that lets every name through
InRegistryAlways(nm) == TRUE

\* line 627: if line_name in EMISSION_LINES
InRegistry(nm) == nm \in DOMAIN EMISSION_LINES

\* line 633: results[line_name] = result; a new key goes last, a key already
\* present keeps its place and takes the new value
DictSet(d, k, v) ==
    [keys |-> IF k \in Range(d.keys) THEN d.keys ELSE Append(d.keys, k),
     vals |-> With(d.vals, k, v)]

\* what identifies a solver call: model.fit(flux_fit, params, x=wave_fit,
\* weights=weights), params being built from obs_wavelength and flux_fit
MemoKey(x, data, w, obs) == [x |-> x, data |-> data, weights |-> w, obs |-> obs]

\* the arguments of the solver call a fit of line nm makes on the arrays
\* wl, fl, iv (lines 97-132)
SolverKey(wl, fl, iv, nm, req) ==
    LET obs == ObsWavelength(EMISSION_LINES[nm], req.z100)
        mask == WindowMask(wl, obs, DefaultWindow * Angstrom)
    IN MemoKey(Take(wl, mask), Take(fl, mask),
               WeightsLmfit(iv, req.useIvar, mask), obs)

\* a few of the outcomes of LmfitSolve, enough for a converged fit, a fit
\* of zero amplitude, a fit that does not converge and one that raises
LmfitSolveSample(obs) ==
    {o \in LmfitSolve(obs) :
        o.kind = "ok" =>
            /\ o.center = obs + 3 * Angstrom /\ o.sigma = 30
            /\ o.intercept = 4 /\ o.slope = 0 /\ o.hasErr /\ o.resid = 1}

\* leastsq is deterministic: the same arguments get the same answer.  The
\* answers given so far are in m; an argument not seen yet gets any outcome.
\* The set of <<answer, answers afterwards>>
SolveOnce(m, key) ==
    IF key \in DOMAIN m THEN {<<m[key], m>>}
    ELSE {<<o, With(m, key, o)>> : o \in LmfitSolveSample(key.obs)}

\* lines 629-631: fit_emission_line(wavelength, flux, ivar, rest_wave,
\* line_name, z) with its defaults window=20, use_lmfit=True, given the
\* solver's answer o
FitLine(wl, fl, nm, req, o) ==
    FitEmissionLineLmfitResult(wl, fl, EMISSION_LINES[nm], nm, req.z100,
                               DefaultWindow * Angstrom, DefaultModelType, o)

\* whether the fit of nm reaches the solver (line 102)
CallsSolver(wl, nm, req) ==
    ~TooFewSamples(WindowMask(wl, ObsWavelength(EMISSION_LINES[nm], req.z100),
                              DefaultWindow * Angstrom))

\* lines 625-635 as a function: the dict the loop returns on the arrays wl,
\* fl, iv when the solver answers as oracle says.  Every assignment
\* results[line_name] = result to one key stores the same result, so the
\* values are given per key, and the keys are the names in the order of
\* the iterations that insert them
SequentialLoop(ls, req, wl, fl, iv, oracle) ==
    LET order == LoopOrder(ls)
        Result(nm) ==
            LET key == SolverKey(wl, fl, iv, nm, req)
                o == IF CallsSolver(wl, nm, req) THEN oracle[key] ELSE NotCalled
            IN FitLine(wl, fl, nm, req, o).ret
        \* the iterations that insert a key: the name passes the registry
        \* test and no earlier iteration had it
        inserts == {k \in 1..Len(ls) :
                      /\ InRegistry(ls[order[k]])
                      /\ \A q \in 1..(k - 1) : ls[order[q]] # ls[order[k]]}
        at == Ascending(inserts)
    IN [keys |-> [j \in 1..Len(at) |-> ls[order[at[j]]]],
        vals |-> [nm \in {n \in Range(ls) : InRegistry(n)} |-> Result(nm)]]

(***************************************************************************)
(* Specification of the batch fit: one call of fit_multiple_lines          *)
(***************************************************************************)
MaxLines == 3
NameChoices == {"Halpha", "NII_6548", "CaII_K", "Hzeta"}
LineLists == UNION {[1..n -> NameChoices] : n \in 0..MaxLines}
BatchZ == 0

Requests ==
    {[lines |-> l, linesNone |-> FALSE, z100 |-> BatchZ, useIvar |-> u] :
        l \in LineLists, u \in BOOLEAN}
    \cup {[lines |-> <<>>, linesNone |-> TRUE, z100 |-> BatchZ, useIvar |-> u] :
        u \in BOOLEAN}

BatchWavelength == Grid(5 * Angstrom)
BatchFlux == FluxOf("bump")
BatchIvar == IvarOf("mixed")

MultiInit ==
    /\ wavelength = BatchWavelength /\ flux = BatchFlux /\ ivar = BatchIvar
    /\ call = NoCall /\ outcome = NotCalled /\ ret = NoResult
    /\ raised = "none" /\ solverArgs = NoSolverArgs /\ pc = "idle"
    /\ BptIdle
    /\ MultiIdle
    /\ PropIdle

\* lines 622-625: the call, up to the first iteration
FitMultipleLines ==
    /\ pcM = "idle"
    /\ \E req \in Requests :
          /\ request' = req
          /\ lines' = ResolveLines(req)
    /\ loopIdx' = 0
    /\ results' = EmptyResults
    /\ pcM' = "loop"
    /\ UNCHANGED <<pending, fitLog, memo, tasks, raisedM>>
    /\ UNCHANGED <<fitVars, bptVars, propVars>>

\* lines 626-627: an iteration whose name fails the registry test
LoopSkip ==
    /\ pcM = "loop" /\ loopIdx < Len(lines)
    /\ ~InRegistry(lines[LoopOrder(lines)[loopIdx + 1]])
    /\ loopIdx' = loopIdx + 1
    /\ UNCHANGED <<request, lines, results, pending, fitLog, memo, tasks, raisedM, pcM>>
    /\ UNCHANGED <<fitVars, bptVars, propVars>>

\* lines 627-631: an iteration whose name passes the test, up to the return
\* of fit_emission_line
LoopFit ==
    /\ pcM = "loop" /\ loopIdx < Len(lines)
    /\ LET p == LoopOrder(lines)[loopIdx + 1]
           nm == lines[p]
       IN /\ InRegistry(nm)
          /\ IF nm \notin DOMAIN EMISSION_LINES
             THEN /\ raisedM' = "KeyError"
                  /\ pcM' = "raised"
                  /\ UNCHANGED <<pending, fitLog, memo, ivar>>
             ELSE /\ fitLog' = Append(fitLog, <<"start", p>>)
                  /\ IF CallsSolver(wavelength, nm, request)
                     THEN LET key == SolverKey(wavelength, flux, ivar, nm, request)
                              mask == WindowMask(wavelength, key.obs, DefaultWindow * Angstrom)
                          IN /\ \E a \in SolveOnce(memo, key) :
                                  LET r == FitLine(wavelength, flux, nm, request, a[1])
                                  IN /\ memo' = a[2]
                                     /\ pending' = r.ret
                                     /\ raisedM' = r.raised
                                     /\ pcM' = IF r.raised = "none" THEN "fitting"
                                               ELSE "raised"
                             /\ ivar' = SharedAfterWeights(ivar, request.useIvar, mask)
                     ELSE /\ pending' = FitLine(wavelength, flux, nm, request, NotCalled).ret
                          /\ pcM' = "fitting"
                          /\ UNCHANGED <<memo, raisedM, ivar>>
    /\ UNCHANGED <<request, lines, loopIdx, results, tasks>>
    /\ UNCHANGED <<wavelength, flux, call, outcome, ret, raised, solverArgs, pc>>
    /\ UNCHANGED <<bptVars, propVars>>

\* line 633: results[line_name] = result, and on to the next iteration
LoopStore ==
    /\ pcM = "fitting"
    /\ LET p == LoopOrder(lines)[loopIdx + 1]
       IN /\ results' = DictSet(results, lines[p], pending)
          /\ fitLog' = Append(fitLog, <<"end", p>>)
    /\ pending' = NoResult
    /\ loopIdx' = loopIdx + 1
    /\ pcM' = "loop"
    /\ UNCHANGED <<request, lines, memo, tasks, raisedM>>
    /\ UNCHANGED <<fitVars, bptVars, propVars>>

\* line 635: return results
LoopReturn ==
    /\ pcM = "loop" /\ loopIdx = Len(lines)
    /\ pcM' = "done"
    /\ UNCHANGED <<request, lines, loopIdx, results, pending, fitLog, memo, tasks, raisedM>>
    /\ UNCHANGED <<fitVars, bptVars, propVars>>

NextMulti == FitMultipleLines \/ LoopSkip \/ LoopFit \/ LoopStore \/ LoopReturn

SpecMulti == MultiInit /\ [][NextMulti]_vars

(***************************************************************************)
(* The per-line fits of a batch run in any order and interleaving: each    *)
(* fit of fit_emission_line_lmfit is cut at its reads of the shared arrays *)
(* (window, weights), its solver call and the store of its result.         *)
(***************************************************************************)
MaxTasks == 2
FanNameChoices == {"Halpha", "NII_6548", "Hzeta"}
FanLists == UNION {[1..n -> FanNameChoices] : n \in 0..MaxTasks}

FanRequests ==
    {[lines |-> l, linesNone |-> FALSE, z100 |-> BatchZ, useIvar |-> u] :
        l \in FanLists, u \in BOOLEAN}

\* the locals of one fit: mask, wave_fit, flux_fit, weights, and its result
Task(pcv, mask, x, data, w, r) ==
    [pc |-> pcv, mask |-> mask, x |-> x, data |-> data, weights |-> w, result |-> r]
NewTask == Task("todo", {}, <<>>, <<>>, <<>>, NoResult)
SkippedTask == Task("skipped", {}, <<>>, <<>>, <<>>, NoResult)

TaskObs(p) == ObsWavelength(EMISSION_LINES[lines[p]], request.z100)

\* lines 622-627: the call; one fit per list element that passes the
\* registry test
FanOut ==
    /\ pcM = "idle"
    /\ \E req \in FanRequests :
          LET ls == ResolveLines(req)
          IN /\ request' = req
             /\ lines' = ls
             /\ tasks' = [p \in 1..Len(ls) |->
                            IF InRegistry(ls[p]) THEN NewTask ELSE SkippedTask]
    /\ results' = EmptyResults
    /\ pcM' = "fanout"
    /\ UNCHANGED <<loopIdx, pending, fitLog, memo, raisedM>>
    /\ UNCHANGED <<fitVars, bptVars, propVars>>

\* lines 97-123: the window mask, the early return, wave_fit and flux_fit
TaskWindow(p) ==
    /\ pcM = "fanout" /\ tasks[p].pc = "todo"
    /\ LET obs == TaskObs(p)
           mask == WindowMask(wavelength, obs, DefaultWindow * Angstrom)
       IN tasks' = [tasks EXCEPT ![p] =
              IF TooFewSamples(mask)
              THEN Task("solved", mask, <<>>, <<>>, <<>>,
                        InsufficientResult(lines[p], obs))
              ELSE Task("windowed", mask, Take(wavelength, mask),
                        Take(flux, mask), <<>>, NoResult)]
    /\ UNCHANGED <<request, lines, loopIdx, results, pending, fitLog, memo, raisedM, pcM>>
    /\ UNCHANGED <<fitVars, bptVars, propVars>>

\* lines 126-132: the weights
TaskWeights(p) ==
    /\ pcM = "fanout" /\ tasks[p].pc = "windowed"
    /\ tasks' = [tasks EXCEPT ![p].pc = "weighted",
                              ![p].weights = WeightsLmfit(ivar, request.useIvar, tasks[p].mask)]
    /\ ivar' = SharedAfterWeights(ivar, request.useIvar, tasks[p].mask)
    /\ UNCHANGED <<request, lines, loopIdx, results, pending, fitLog, memo, raisedM, pcM>>
    /\ UNCHANGED <<wavelength, flux, call, outcome, ret, raised, solverArgs, pc>>
    /\ UNCHANGED <<bptVars, propVars>>

\* lines 135-248: the model, the solver call and the record built from it
TaskSolve(p) ==
    /\ pcM = "fanout" /\ tasks[p].pc = "weighted"
    /\ LET t == tasks[p]
           obs == TaskObs(p)
       IN \E a \in SolveOnce(memo, MemoKey(t.x, t.data, t.weights, obs)) :
             LET r == TryLmfit(lines[p], obs, t.data, DefaultModelType, a[1])
             IN /\ memo' = a[2]
                /\ raisedM' = r.raised
                /\ IF r.raised = "none"
                   THEN /\ tasks' = [tasks EXCEPT ![p].pc = "solved",
                                                  ![p].result = r.ret]
                        /\ pcM' = pcM
                   ELSE /\ pcM' = "raised"
                        /\ tasks' = tasks
    /\ UNCHANGED <<request, lines, loopIdx, results, pending, fitLog>>
    /\ UNCHANGED <<fitVars, bptVars, propVars>>

\* line 633: results[line_name] = result
TaskStore(p) ==
    /\ pcM = "fanout" /\ tasks[p].pc = "solved"
    /\ results' = DictSet(results, lines[p], tasks[p].result)
    /\ tasks' = [tasks EXCEPT ![p].pc = "stored"]
    /\ UNCHANGED <<request, lines, loopIdx, pending, fitLog, memo, raisedM, pcM>>
    /\ UNCHANGED <<fitVars, bptVars, propVars>>

\* line 635: return results, once every fit has stored its result
FanIn ==
    /\ pcM = "fanout"
    /\ \A p \in DOMAIN tasks : tasks[p].pc \in {"stored", "skipped"}
    /\ pcM' = "done"
    /\ UNCHANGED <<request, lines, loopIdx, results, pending, fitLog, memo, tasks, raisedM>>
    /\ UNCHANGED <<fitVars, bptVars, propVars>>

NextFanOut ==
    \/ FanOut
    \/ \E p \in DOMAIN tasks : TaskWindow(p)
    \/ \E p \in DOMAIN tasks : TaskWeights(p)
    \/ \E p \in DOMAIN tasks : TaskSolve(p)
    \/ \E p \in DOMAIN tasks : TaskStore(p)
    \/ FanIn

SpecFanOut == MultiInit /\ [][NextFanOut]_vars

(***************************************************************************)
(* Galaxy properties (src/utils/galaxy_properties.py).  A physical         *)
(* quantity is kept exact as (n/d) * 10^e * pi^pi * dl^dlpow, dl being the *)
(* luminosity distance in cm, itself m * 10^e.  Magnitudes are thousandths *)
(* of a magnitude, a log mass or a metallicity is in units of 1e-6 dex.    *)
(***************************************************************************)
RECURSIVE GCD(_, _)
GCD(a, b) == IF b = 0 THEN a ELSE GCD(b, a % b)

\* a distance in cm: m * 10^e
Distance(mant, ex) == [m |-> mant, e |-> ex]
NoDistance == Distance(0, 0)

\* float 0.0
ZeroQuantity == [n |-> 0, d |-> 1, e |-> 0, pi |-> 0, dlpow |-> 0, dl |-> NoDistance]

\* the number of factors ten of a nonzero integer, and the integer without
RECURSIVE Tens(_)
Tens(n) == IF n % 10 = 0 THEN 1 + Tens(n \div 10) ELSE 0

RECURSIVE WithoutTens(_)
WithoutTens(n) == IF n % 10 = 0 THEN WithoutTens(n \div 10) ELSE n

\* (n/d) * 10^e * pi^p * dl^k, n/d in lowest terms and free of factors ten
Quantity(n, d, e, p, k, dl) ==
    IF n = 0 THEN ZeroQuantity
    ELSE LET g == GCD(Abs(n), d)
             num == n \div g
             den == d \div g
         IN [n |-> WithoutTens(num), d |-> WithoutTens(den),
             e |-> e + Tens(num) - Tens(den), pi |-> p, dlpow |-> k,
             dl |-> IF k = 0 THEN NoDistance ELSE dl]

\* q * (n/d) * 10^e
Scale(q, n, d, e) == Quantity(q.n * n, q.d * d, q.e + e, q.pi, q.dlpow, q.dl)

\* line 107: FlatLambdaCDM(H0=70, Om0=0.3).luminosity_distance(z) in cm, for
\* z in hundredths: 460.3 Mpc at z = 0.1, 1552.7 Mpc at z = 0.3
LuminosityDistanceCm(z100) ==
    IF z100 = 10 THEN Distance(1420, 24) ELSE Distance(4791, 24)

\* lines 104-109: the luminosity distance estimate_sfr uses
SfrDistance(z100) ==
    IF z100 > 0 THEN LuminosityDistanceCm(z100) ELSE Distance(3086, 21)

\* line 112: L_ha = ha_flux * 4 * np.pi * d_L**2, ha_flux = f.n * 10^f.e
HaLuminosity(f, d_L) == Quantity(f.n * 4, 1, f.e, 1, 2, d_L)

\* a calibration that ignores the method
SfrConstantKennicutt98(method) == [n |-> 79, e |-> -43]

\* lines 114-123: the calibration constant, n * 10^e
SfrConstant(method) ==
    IF method = "kennicutt98" THEN [n |-> 79, e |-> -43]
    ELSE IF method = "kennicutt12" THEN [n |-> 55, e |-> -43]
    ELSE [n |-> 79, e |-> -43]

NoneValue == [kind |-> "None"]
FloatValue(v) == [kind |-> "float", value |-> v]
DictValue(v) == [kind |-> "dict", value |-> v]

\* lines 125-129: sfr * (ha_flux_err / ha_flux), or 0.0
SfrErr(sfr, f, ferr) ==
    IF ferr.given /\ f.n > 0 THEN Scale(sfr, ferr.n, f.n, ferr.e - f.e)
    ELSE ZeroQuantity

\* lines 73-135
estimate_sfr(f, ferr, z100, method) ==
    LET L_ha == HaLuminosity(f, SfrDistance(z100))
        k == SfrConstant(method)
        sfr == Scale(L_ha, k.n, 1, k.e)
    IN DictValue([sfr |-> sfr, sfr_err |-> SfrErr(sfr, f, ferr), L_ha |-> L_ha])

\* lines 175-185: 8.90 + 0.57 * log10(nii / ha)
MetallicityN2(lr) ==
    IF "NII_6583" \in DOMAIN lr /\ "Halpha" \in DOMAIN lr
       /\ lr["NII_6583"].flux > 0 /\ lr["Halpha"].flux > 0
    THEN DictValue([oh |-> 8900000 + 570 * Log10Ratio(lr["NII_6583"].flux, lr["Halpha"].flux),
                    method |-> "N2"])
    ELSE NoneValue

\* line 170: np.log10((oiii / hb) / (nii / ha)), thousandths
O3N2Index(oiii, hb, nii, ha) == Log10Ratio(oiii, hb) - Log10Ratio(nii, ha)

\* a calibration with the slope of the N2 relation
O3N2CalibrationSteep(o3n2) == 8730000 - 570 * o3n2

\* line 172: 8.73 - 0.32 * O3N2
O3N2Calibration(o3n2) == 8730000 - 320 * o3n2

\* lines 159-173
MetallicityO3N2(lr) ==
    IF {"OIII_5007", "Hbeta", "NII_6583", "Halpha"} \subseteq DOMAIN lr
    THEN LET oiii == lr["OIII_5007"].flux
             hb == lr["Hbeta"].flux
             nii == lr["NII_6583"].flux
             ha == lr["Halpha"].flux
         IN IF oiii > 0 /\ hb > 0 /\ nii > 0 /\ ha > 0
            THEN DictValue([oh |-> O3N2Calibration(O3N2Index(oiii, hb, nii, ha)),
                            method |-> "O3N2"])
            ELSE NoneValue
    ELSE NoneValue

\* the O3N2 method falling back on the N2 calibration
calculate_metallicity_fallback(lr, method) ==
    IF method = "pp04_n2" THEN MetallicityN2(lr)
    ELSE IF method = "pp04_o3n2"
         THEN IF MetallicityO3N2(lr) = NoneValue THEN MetallicityN2(lr)
              ELSE MetallicityO3N2(lr)
         ELSE NoneValue

\* lines 138-187
calculate_metallicity(lr, method) ==
    IF method = "pp04_o3n2" THEN MetallicityO3N2(lr)
    ELSE IF method = "pp04_n2" THEN MetallicityN2(lr)
    ELSE NoneValue

\* line 45: 5 * log10(d_L * 1e6) - 5 with d_L in Mpc, thousandths of a mag
DistanceModulus(z100) == IF z100 = 10 THEN 38315 ELSE 40955

\* line 68: log_mass = 10.0
MassFallback == FloatValue(10 * 1000 * 1000)

\* lines 9-70: g_mag, r_mag in thousandths (multiples of a tenth)
estimate_stellar_mass(g_mag, r_mag, z100, method) ==
    LET dist_mod == IF z100 > 0 THEN DistanceModulus(z100) ELSE 0
        M_r == r_mag - dist_mod
        g_r == g_mag - r_mag
        t == g_r \div 100
    IN IF method = "taylor11"
       THEN FloatValue(-406000 + 1097 * g_r - 400 * M_r - 158 * t * t)
       ELSE IF method = "bell03"
            THEN FloatValue((-400000 + 1000 * g_r) - 400 * (M_r - 4640))
            ELSE MassFallback

(***************************************************************************)
(* Specification of the galaxy properties: one call on drawn arguments     *)
(***************************************************************************)
NoErr == [given |-> FALSE, n |-> 0, e |-> 0]
Flux(n, e) == [n |-> n, e |-> e]
FluxErrGiven(n, e) == [given |-> TRUE, n |-> n, e |-> e]

HaFluxChoices == {Flux(1, -14), Flux(3, -15), Flux(0, 0), Flux(-2, -15)}
HaFluxErrChoices == {NoErr, FluxErrGiven(1, -15), FluxErrGiven(2, -16), FluxErrGiven(0, 0)}
PropZChoices == {-1, 0, 10, 30}
SfrMethods == {"kennicutt98", "kennicutt12", "salpeter"}
MetallicityMethods == {"pp04_o3n2", "pp04_n2", "d16"}
MassMethods == {"taylor11", "bell03", "zibetti09"}
MagChoices == {17000, 17500, 18200}

MetallicityLines == {"OIII_5007", "Hbeta", "NII_6583", "Halpha"}
MetallicityKinds == {"absent", "zero", "negative", "good", "alt"}

\* fluxes that make O3N2 exactly 1 when all four lines take them
AltFlux(nm) == IF nm = "OIII_5007" THEN 10 ELSE 1

MetallicityEntry(nm, kind) ==
    IF kind = "zero" THEN Fitted(nm, FALSE, 0, 0)
    ELSE IF kind = "negative" THEN Fitted(nm, TRUE, -2, 1)
    ELSE IF kind = "good" THEN Fitted(nm, TRUE, GoodFlux(nm), 1)
    ELSE Fitted(nm, TRUE, AltFlux(nm), 1)

MetallicityInput(kinds) ==
    [nm \in {l \in MetallicityLines : kinds[l] # "absent"} |->
        MetallicityEntry(nm, kinds[nm])]

PropInit == FitIdle /\ BptIdle /\ MultiIdle /\ PropIdle

\* estimate_sfr(ha_flux, ha_flux_err, z, method)
EstimateSfr ==
    /\ pcP = "idle"
    /\ \E f \in HaFluxChoices, ferr \in HaFluxErrChoices, z100 \in PropZChoices,
          method \in SfrMethods :
          /\ propCall' = [fn |-> "estimate_sfr", ha_flux |-> f, ha_flux_err |-> ferr,
                          z100 |-> z100, method |-> method]
          /\ propRet' = estimate_sfr(f, ferr, z100, method)
    /\ pcP' = "done"
    /\ UNCHANGED <<registry, ncalls, injected>>
    /\ UNCHANGED <<fitVars, bptVars, multiVars>>

\* calculate_metallicity(line_results, method)
CalculateMetallicity ==
    /\ pcP = "idle"
    /\ \E kinds \in [MetallicityLines -> MetallicityKinds],
          method \in MetallicityMethods :
          /\ propCall' = [fn |-> "calculate_metallicity",
                          line_results |-> MetallicityInput(kinds), method |-> method]
          /\ propRet' = calculate_metallicity(MetallicityInput(kinds), method)
    /\ pcP' = "done"
    /\ UNCHANGED <<registry, ncalls, injected>>
    /\ UNCHANGED <<fitVars, bptVars, multiVars>>

\* estimate_stellar_mass(g_mag, r_mag, z, method)
EstimateStellarMass ==
    /\ pcP = "idle"
    /\ \E g_mag \in MagChoices, r_mag \in MagChoices, z100 \in PropZChoices,
          method \in MassMethods :
          /\ propCall' = [fn |-> "estimate_stellar_mass", g_mag |-> g_mag,
                          r_mag |-> r_mag, z100 |-> z100, method |-> method]
          /\ propRet' = estimate_stellar_mass(g_mag, r_mag, z100, method)
    /\ pcP' = "done"
    /\ UNCHANGED <<registry, ncalls, injected>>
    /\ UNCHANGED <<fitVars, bptVars, multiVars>>

NextProperties == EstimateSfr \/ CalculateMetallicity \/ EstimateStellarMass

SpecProperties == PropInit /\ [][NextProperties]_vars

(***************************************************************************)
(* A session: calls of the fitting, BPT and galaxy-property functions in   *)
(* any order on one spectrum, each call a step                             *)
(***************************************************************************)
MaxCalls == 3

\* the module-level dicts emptied by a call
RegistryAfterFittingCleared(reg) == [reg EXCEPT !.EMISSION_LINES = EmptyDict]

\* src/utils/line_fitting.py: fit_emission_line_lmfit and fit_emission_line
\* name no module-level dict; fit_multiple_lines copies the keys (line 623),
\* tests membership (627) and reads one value (628).  The dicts after a call
\* of either
RegistryAfterFitting(reg) == reg

\* src/utils/bpt_diagrams.py: classify_object_bpt and calculate_line_ratios
\* name no dict of line_fitting
RegistryAfterBpt(reg) == reg

\* src/utils/galaxy_properties.py: estimate_sfr, calculate_metallicity and
\* estimate_stellar_mass name no dict of line_fitting
RegistryAfterProperties(reg) == reg

SessionLines == {"Halpha", "Hbeta"}
SessionRequests ==
    {[lines |-> <<"Halpha", "CaII_K", "NII_6548">>, linesNone |-> FALSE,
      z100 |-> BatchZ, useIvar |-> TRUE],
     [lines |-> <<>>, linesNone |-> TRUE, z100 |-> BatchZ, useIvar |-> TRUE]}

\* the worked example, the same with a failed [NII] fit, and Halpha alone
SessionLineResults ==
    {[nm \in {"Halpha", "Hbeta", "OIII_5007", "NII_6583"} |-> Entry(nm, "good")],
     [nm \in {"Halpha", "Hbeta", "OIII_5007", "NII_6583"} |->
         Entry(nm, IF nm = "NII_6583" THEN "failed" ELSE "good")],
     [nm \in {"Halpha", "Hbeta", "OIII_5007", "NII_6583"} |->
         Fitted(nm, TRUE, IF nm = "NII_6583" THEN 10 ELSE GoodFlux(nm), 1)],
     [nm \in {"Halpha"} |-> Entry(nm, "good")]}
SessionPoints == {<<-699, -176>>, <<-300, 0>>, <<200, 1000>>}

\* an outcome of the given kind for a solver call not answered before
SessionAnswer(key, kind) ==
    CHOOSE o \in LmfitSolveSample(key.obs) :
        o.kind = kind /\ (kind = "ok" => o.amplitude = 8)

\* the solver calls a batch on the session's spectrum makes
SessionKeys(ls, req) ==
    {SolverKey(wavelength, flux, ivar, nm, req) :
        nm \in {n \in Range(ls) \cap DOMAIN EMISSION_LINES :
                    CallsSolver(wavelength, n, req)}}

\* the answers so far, and the given kind for the calls not answered yet
SessionOracle(keys, kind) ==
    [key \in DOMAIN memo \cup keys |->
        IF key \in DOMAIN memo THEN memo[key] ELSE SessionAnswer(key, kind)]

SessionInit ==
    /\ wavelength = BatchWavelength /\ flux = BatchFlux /\ ivar = BatchIvar
    /\ call = NoCall /\ outcome = NotCalled /\ ret = NoResult
    /\ raised = "none" /\ solverArgs = NoSolverArgs /\ pc = "idle"
    /\ BptIdle /\ MultiIdle /\ PropIdle

\* fit_emission_line(wavelength, flux, ivar, rest, name, z)
SessionFitEmissionLine ==
    /\ ncalls < MaxCalls
    /\ \E nm \in SessionLines, kind \in {"ok", "notconverged"} :
          LET req == [lines |-> <<nm>>, linesNone |-> FALSE, z100 |-> BatchZ,
                      useIvar |-> TRUE]
              key == SolverKey(wavelength, flux, ivar, nm, req)
              called == CallsSolver(wavelength, nm, req)
              oracle == SessionOracle(IF called THEN {key} ELSE {}, kind)
              o == IF called THEN oracle[key] ELSE NotCalled
              r == FitLine(wavelength, flux, nm, req, o)
          IN /\ call' = CallArgs("fit_emission_line", nm, BatchZ,
                                 DefaultWindow * Angstrom, TRUE, TRUE,
                                 DefaultModelType, TRUE)
             /\ outcome' = o
             /\ solverArgs' = IF called THEN [x |-> key.x, data |-> key.data,
                                              weights |-> key.weights]
                              ELSE NoSolverArgs
             /\ ret' = r.ret
             /\ raised' = r.raised
             /\ memo' = oracle
    /\ pc' = "returned"
    /\ registry' = RegistryAfterFitting(registry)
    /\ ncalls' = ncalls + 1
    /\ UNCHANGED <<wavelength, flux, ivar>>
    /\ UNCHANGED <<request, lines, loopIdx, results, pending, fitLog, tasks, raisedM, pcM>>
    /\ UNCHANGED <<propCall, propRet, pcP, injected>>
    /\ UNCHANGED bptVars

\* fit_multiple_lines(wavelength, flux, ivar, z, lines)
SessionFitMultipleLines ==
    /\ ncalls < MaxCalls
    /\ \E req \in SessionRequests :
          LET ls == ResolveLines(req)
              oracle == SessionOracle(SessionKeys(ls, req), "ok")
          IN /\ request' = req
             /\ lines' = ls
             /\ loopIdx' = Len(ls)
             /\ results' = SequentialLoop(ls, req, wavelength, flux, ivar, oracle)
             /\ memo' = oracle
    /\ pcM' = "done"
    /\ registry' = RegistryAfterFitting(registry)
    /\ ncalls' = ncalls + 1
    /\ UNCHANGED <<pending, fitLog, tasks, raisedM>>
    /\ UNCHANGED <<propCall, propRet, pcP, injected>>
    /\ UNCHANGED <<fitVars, bptVars>>

\* calculate_line_ratios(line_results)
SessionCalculateLineRatios ==
    /\ ncalls < MaxCalls
    /\ \E lr \in SessionLineResults :
          /\ line_results' = lr
          /\ ratios' = calculate_line_ratios(lr)
    /\ registry' = RegistryAfterBpt(registry)
    /\ ncalls' = ncalls + 1
    /\ UNCHANGED <<nii_ha, oiii_hb, numtype, bpt, pcB>>
    /\ UNCHANGED <<propCall, propRet, pcP, injected>>
    /\ UNCHANGED <<fitVars, multiVars>>

\* classify_object_bpt(nii_ha, oiii_hb) on a point given by the caller
SessionClassify ==
    /\ ncalls < MaxCalls
    /\ \E pt \in SessionPoints, nt \in {"float", "numpy"} :
          /\ nii_ha' = pt[1] /\ oiii_hb' = pt[2] /\ numtype' = nt
          /\ bpt' = classify_object_bpt(pt[1], pt[2], nt)
    /\ pcB' = "done"
    /\ registry' = RegistryAfterBpt(registry)
    /\ ncalls' = ncalls + 1
    /\ UNCHANGED <<line_results, ratios>>
    /\ UNCHANGED <<propCall, propRet, pcP, injected>>
    /\ UNCHANGED <<fitVars, multiVars>>

\* create_bpt_diagram, lines 199-202: classify_object_bpt(ratios['NII_Ha'],
\* ratios['OIII_Hb']) on the np.float64 values of calculate_line_ratios
SessionClassifyRatios ==
    /\ ncalls < MaxCalls
    /\ "NII_Ha" \in DOMAIN ratios /\ "OIII_Hb" \in DOMAIN ratios
    /\ nii_ha' = ratios["NII_Ha"] /\ oiii_hb' = ratios["OIII_Hb"]
    /\ numtype' = "numpy"
    /\ bpt' = classify_object_bpt(ratios["NII_Ha"], ratios["OIII_Hb"], "numpy")
    /\ pcB' = "done"
    /\ registry' = RegistryAfterBpt(registry)
    /\ ncalls' = ncalls + 1
    /\ UNCHANGED <<line_results, ratios>>
    /\ UNCHANGED <<propCall, propRet, pcP, injected>>
    /\ UNCHANGED <<fitVars, multiVars>>

\* estimate_sfr, calculate_metallicity or estimate_stellar_mass
SessionProperty ==
    /\ ncalls < MaxCalls
    /\ \/ /\ propCall' = [fn |-> "estimate_sfr", ha_flux |-> Flux(1, -14),
                          ha_flux_err |-> NoErr, z100 |-> 0, method |-> "kennicutt98"]
          /\ propRet' = estimate_sfr(Flux(1, -14), NoErr, 0, "kennicutt98")
       \/ /\ propCall' = [fn |-> "calculate_metallicity",
                          line_results |-> line_results, method |-> "pp04_o3n2"]
          /\ propRet' = calculate_metallicity(line_results, "pp04_o3n2")
       \/ /\ propCall' = [fn |-> "estimate_stellar_mass", g_mag |-> 18200,
                          r_mag |-> 17500, z100 |-> 10, method |-> "taylor11"]
          /\ propRet' = estimate_stellar_mass(18200, 17500, 10, "taylor11")
    /\ pcP' = "done"
    /\ registry' = RegistryAfterProperties(registry)
    /\ ncalls' = ncalls + 1
    /\ UNCHANGED injected
    /\ UNCHANGED <<fitVars, bptVars, multiVars>>

NextSession ==
    \/ SessionFitEmissionLine
    \/ SessionFitMultipleLines
    \/ SessionCalculateLineRatios
    \/ SessionClassify
    \/ SessionClassifyRatios
    \/ SessionProperty

SpecSession == SessionInit /\ [][NextSession]_vars

(***************************************************************************)
(* Specification of the error propagation of calculate_line_ratios: one    *)
(* call on the four BPT lines with drawn fluxes and flux errors            *)
(***************************************************************************)
MaxErr == 3

RatioErrLines == {"NII_6583", "Halpha", "OIII_5007", "Hbeta"}

RatioErrInit ==
    /\ FitIdle /\ MultiIdle /\ PropIdle
    /\ nii_ha = 0 /\ oiii_hb = 0 /\ numtype = "numpy" /\ bpt = NoLabel
    /\ \E f \in [RatioErrLines -> {"worked", "five"}],
          fe \in [RatioErrLines -> 0..MaxErr] :
          line_results =
              [nm \in RatioErrLines |->
                  Fitted(nm, TRUE, IF f[nm] = "worked" THEN GoodFlux(nm) ELSE 5,
                         fe[nm])]
    /\ ratios = EmptyDict /\ pcB = "idle"

SpecRatioErrors == RatioErrInit /\ [][CalculateLineRatios]_vars

(***************************************************************************)
(* Round trip: fit_emission_line_lmfit on a synthetic spectrum             *)
(*   flux = continuum + A * exp(-(x - mu)^2 / (2 sigma^2)) + noise         *)
(* sampled every 4 A, the solver being an exact least-squares search.      *)
(* Lines 135-146 build GaussianModel(prefix='line_') + LinearModel; lmfit's *)
(* GaussianModel is                                                        *)
(*   amplitude / (sigma sqrt(2 pi)) * exp(-(x - center)^2 / (2 sigma^2)),  *)
(* its amplitude parameter being the area under the line.                  *)
(***************************************************************************)
SynthStart == 6551 * Angstrom
SynthStep == 4 * Angstrom
SynthGrid == [i \in 1..MaxSamples |-> SynthStart + (i - 1) * SynthStep]

\* 1000 * exp(-d^2 / (2 sigma^2)) for d = 4k A and sigma s in 1e-1 A
GaussianMilli(k, s) ==
    IF k > 3 THEN 0
    ELSE IF s = 20 THEN <<1000, 135, 0, 0>>[k + 1]
    ELSE IF s = 30 THEN <<1000, 411, 29, 0>>[k + 1]
    ELSE <<1000, 607, 135, 11>>[k + 1]

\* grid steps between a sample and a center
StepsFrom(x, center) == Abs(x - center) \div SynthStep

\* lines 33-57, gaussian(): amplitude * exp(...) + continuum, the profile
\* of peak height A the spectrum is made of; whole flux units
InjectedProfile(x, inj) ==
    inj.continuum + (inj.A * GaussianMilli(StepsFrom(x, inj.mu), inj.sigma) + 500) \div 1000

NoiseKinds == {"none", "alternating", "dip"}

\* the noise added to sample i, at most one flux unit
NoiseAt(kind, i) ==
    IF kind = "alternating" THEN (IF i % 2 = 1 THEN 1 ELSE -1)
    ELSE IF kind = "dip" THEN (IF i = 2 THEN -1 ELSE 0)
    ELSE 0

Injection(A, mu, s, c, noise) ==
    [given |-> TRUE, A |-> A, mu |-> mu, sigma |-> s, continuum |-> c, noise |-> noise]

Injections ==
    {Injection(A, SynthStart + k * SynthStep, s, c, noise) :
        A \in {20, 30}, k \in {3, 4}, s \in {20, 30, 40}, c \in {2, 4},
        noise \in NoiseKinds}

SyntheticFlux(inj) ==
    [i \in 1..MaxSamples |-> InjectedProfile(SynthGrid[i], inj) + NoiseAt(inj.noise, i)]

\* GaussianModel + LinearModel at x, in tenths of a half flux unit, for
\* the parameters p (amplitude and intercept in half flux units, slope 0)
CompositeModel(x, p) ==
    10 * p.intercept
    + (p.amplitude * GaussianMilli(StepsFrom(x, p.center), p.sigma) * 100)
          \div (p.sigma * Sqrt2PiMilli)

\* the sum of squared residuals of p on the window (weights all one)
SumOfSquares(x, data, p) ==
    LET S[i \in 0..Len(x)] ==
            IF i = 0 THEN 0
            ELSE LET r == 10 * FluxScale * data[i] - CompositeModel(x[i], p)
                 IN S[i - 1] + r * r
    IN S[Len(x)]

\* the parameter vectors the search goes through, all inside the bounds of
\* lines 153-162
TrialAmplitudes == {5 * k : k \in 0..130}
TrialCenters == {SynthStart + k * SynthStep : k \in {2, 3, 4}}
TrialSigmas == {20, 30, 40}
TrialIntercepts == {4, 8}

Trial(c, a, s, icpt) == [center |-> c, amplitude |-> a, sigma |-> s, intercept |-> icpt]

\* the entries of a set of <<sum of squares, parameters>> with the least sum
Least(T) == {t \in T : \A u \in T : t[1] <= u[1]}

\* line 169: model.fit(flux_fit, params, x=wave_fit, weights=weights,
\* method='leastsq') on a spectrum the model can reproduce: the parameters
\* of least residual, any of them on a tie
LeastSquares(x, data) ==
    LET perShape == UNION {Least({<<SumOfSquares(x, data, Trial(c, a, s, icpt)),
                                     Trial(c, a, s, icpt)>> : a \in TrialAmplitudes}) :
                              c \in TrialCenters, s \in TrialSigmas,
                              icpt \in TrialIntercepts}
    IN {SolverResult("ok", "none", t[2].center, t[2].amplitude, t[2].sigma,
                     t[2].intercept, 0, TRUE,
                     ISqrtUpTo(t[1] \div Len(x), 5000) \div 10) :
           t \in Least(perShape)}

RoundTripInit ==
    /\ wavelength = SynthGrid
    /\ \E inj \in Injections : injected = inj /\ flux = SyntheticFlux(inj)
    /\ ivar = <<>>
    /\ call = NoCall /\ outcome = NotCalled /\ ret = NoResult
    /\ raised = "none" /\ solverArgs = NoSolverArgs /\ pc = "idle"
    /\ BptIdle /\ MultiIdle
    /\ registry = LoadedRegistry /\ ncalls = 0 /\ propCall = NoPropCall
    /\ propRet = NoPropRet /\ pcP = "idle"

\* fit_emission_line_lmfit(wavelength, flux, None, 6564.61, 'Halpha')
RoundTripFit ==
    /\ pc = "idle"
    /\ LET a == CallArgs("fit_emission_line_lmfit", "Halpha", 0,
                         DefaultWindow * Angstrom, TRUE, TRUE, DefaultModelType, FALSE)
           obs == ObsWavelength(a.rest, a.z100)
           mask == WindowMask(wavelength, obs, a.window)
       IN /\ call' = a
          /\ IF TooFewSamples(mask)
             THEN /\ outcome' = NotCalled
                  /\ solverArgs' = NoSolverArgs
                  /\ ret' = InsufficientResult(a.line_name, obs)
                  /\ raised' = "none"
             ELSE \E o \in LeastSquares(Take(wavelength, mask), Take(flux, mask)) :
                    LET r == FitEmissionLineLmfitResult(wavelength, flux, a.rest,
                                a.line_name, a.z100, a.window, a.model_type, o)
                    IN /\ outcome' = o
                       /\ solverArgs' = SolverArgs(wavelength, flux,
                              WeightsLmfit(ivar, a.useIvar, mask), mask)
                       /\ ret' = r.ret
                       /\ raised' = r.raised
    /\ pc' = "returned"
    /\ UNCHANGED <<wavelength, flux, ivar>>
    /\ UNCHANGED <<bptVars, multiVars, propVars>>

SpecRoundTrip == RoundTripInit /\ [][RoundTripFit]_vars

(***************************************************************************)
(* Specification of the single-line fitter on spectra with a sample        *)
(* exactly at obs - window of the Halpha call with the default window      *)
(* (and, on the 10 A grid, one at obs + window)                            *)
(***************************************************************************)
EdgeStart == ObsWavelength(EMISSION_LINES["Halpha"], 0) - DefaultWindow * Angstrom
EdgeSteps == {5 * Angstrom, 10 * Angstrom}
EdgeGrid(step) == [i \in 1..MaxSamples |-> EdgeStart + (i - 1) * step]

EdgeInit ==
    /\ \E step \in EdgeSteps : wavelength = EdgeGrid(step)
    /\ \E shape \in FluxShapes : flux = FluxOf(shape)
    /\ \E shape \in IvarShapes : ivar = IvarOf(shape)
    /\ call = NoCall /\ outcome = NotCalled /\ ret = NoResult
    /\ raised = "none" /\ solverArgs = NoSolverArgs /\ pc = "idle"
    /\ BptIdle /\ MultiIdle /\ PropIdle

SpecWindowEdge == EdgeInit /\ [][FitEmissionLineLmfit \/ FitEmissionLine]_vars

(***************************************************************************)
(* Specification of fit_emission_line_lmfit on a spectrum with one flux    *)
(* sample that is NaN or infinite.  np.median of an array holding NaN is   *)
(* NaN; lmfit (nan_policy='raise') raises ValueError on non-finite data.   *)
(***************************************************************************)
NonFinite(v) == v \in {NaN, PosInf, NegInf}

\* np.median of a window holding at most one non-finite sample
MedianOfFlux(flux_fit) ==
    IF NaN \in {flux_fit[i] : i \in 1..Len(flux_fit)} THEN NaN
    ELSE Median2(flux_fit)

\* lines 231-248 with a non-finite sample in flux_fit
ExceptResultNonFinite(nm, obs, flux_fit) ==
    LineResult(nm, obs, 0, 0, 0, 0, 0, 0, 0, 0, 0, 0, 0, 0,
               MedianOfFlux(flux_fit), FALSE)

\* line 169 on data that are not all finite
LmfitSolveNonFinite == {Raises("ValueError")}

BadFluxInit ==
    /\ \E step \in GridSteps : wavelength = Grid(step)
    /\ \E shape \in FluxShapes, k \in 1..MaxSamples, bad \in {NaN, PosInf, NegInf} :
          flux = [i \in 1..MaxSamples |-> IF i = k THEN bad ELSE FluxOf(shape)[i]]
    /\ \E shape \in IvarShapes : ivar = IvarOf(shape)
    /\ call = NoCall /\ outcome = NotCalled /\ ret = NoResult
    /\ raised = "none" /\ solverArgs = NoSolverArgs /\ pc = "idle"
    /\ BptIdle /\ MultiIdle /\ PropIdle

\* fit_emission_line_lmfit(wavelength, flux, ivar, rest, name, z, window)
FitBadFlux ==
    /\ pc = "idle"
    /\ \E nm \in LineChoices, window \in WindowChoices, useIvar \in BOOLEAN :
          LET a == CallArgs("fit_emission_line_lmfit", nm, 0, window, TRUE, TRUE,
                            DefaultModelType, useIvar)
              obs == ObsWavelength(a.rest, a.z100)
              mask == WindowMask(wavelength, obs, a.window)
              flux_fit == Take(flux, mask)
              finite == \A i \in 1..Len(flux_fit) : ~NonFinite(flux_fit[i])
          IN /\ call' = a
             /\ IF TooFewSamples(mask)
                THEN /\ outcome' = NotCalled
                     /\ solverArgs' = NoSolverArgs
                     /\ ret' = InsufficientResult(nm, obs)
                ELSE /\ solverArgs' = SolverArgs(wavelength, flux,
                            WeightsLmfit(ivar, useIvar, mask), mask)
                     /\ IF finite
                        THEN \E o \in LmfitSolveSample(obs) :
                               /\ outcome' = o
                               /\ ret' = TryLmfit(nm, obs, flux_fit, a.model_type, o).ret
                        ELSE \E o \in LmfitSolveNonFinite :
                               /\ outcome' = o
                               /\ ret' = ExceptResultNonFinite(nm, obs, flux_fit)
    /\ raised' = "none"
    /\ pc' = "returned"
    /\ UNCHANGED <<wavelength, flux, ivar>>
    /\ UNCHANGED <<bptVars, multiVars, propVars>>

SpecBadFlux == BadFluxInit /\ [][FitBadFlux]_vars

(***************************************************************************)
(* Specification of fit_emission_line_lmfit on the [OII] doublet: one call *)
(* for either line on a spectrum around 3727 A                             *)
(***************************************************************************)
DoubletLines == {"OII_3727", "OII_3729"}
DoubletStart == 3710 * Angstrom
DoubletGrid == [i \in 1..MaxSamples |-> DoubletStart + (i - 1) * 5 * Angstrom]

DoubletInit ==
    /\ wavelength = DoubletGrid
    /\ \E shape \in FluxShapes : flux = FluxOf(shape)
    /\ \E shape \in IvarShapes : ivar = IvarOf(shape)
    /\ call = NoCall /\ outcome = NotCalled /\ ret = NoResult
    /\ raised = "none" /\ solverArgs = NoSolverArgs /\ pc = "idle"
    /\ BptIdle /\ MultiIdle /\ PropIdle

\* fit_emission_line_lmfit(wavelength, flux, ivar, rest, name, z)
FitDoublet ==
    /\ pc = "idle"
    /\ \E nm \in DoubletLines, z100 \in ZChoices, useIvar \in BOOLEAN :
          RunLmfit(CallArgs("fit_emission_line_lmfit", nm, z100,
                            DefaultWindow * Angstrom, TRUE, TRUE,
                            DefaultModelType, useIvar))

SpecDoublet == DoubletInit /\ [][FitDoublet]_vars

(***************************************************************************)
(* The pipeline of the pages: fit_multiple_lines on the spectrum           *)
(* (src/pages/3_*.py:303-309), its dict kept as line_fits and handed to    *)
(* calculate_line_ratios (src/pages/4_*.py:55-58)                          *)
(***************************************************************************)
\* the default selection of the page, shorter selections, and a name that
\* is not an emission line
PipelineLists ==
    {<<"Halpha", "Hbeta", "OIII_5007", "NII_6583">>,
     <<"NII_6583", "Halpha", "OI_6300">>,
     <<"Halpha", "Na_D", "NII_6583">>,
     <<"Hbeta", "OIII_5007">>}

PipelineRequests ==
    {[lines |-> l, linesNone |-> FALSE, z100 |-> BatchZ, useIvar |-> u] :
        l \in PipelineLists, u \in BOOLEAN}

\* samples every 5 A around Halpha and [NII] 6583
PipelineStart == 6560 * Angstrom
PipelineWavelength ==
    [i \in 1..MaxSamples |-> PipelineStart + (i - 1) * 5 * Angstrom]

PipelineInit ==
    /\ wavelength = PipelineWavelength /\ flux = BatchFlux
    /\ \E shape \in IvarShapes : ivar = IvarOf(shape)
    /\ call = NoCall /\ outcome = NotCalled /\ ret = NoResult
    /\ raised = "none" /\ solverArgs = NoSolverArgs /\ pc = "idle"
    /\ BptIdle
    /\ MultiIdle
    /\ PropIdle

\* page 3, lines 303-307: fit_multiple_lines(wave, flux, ivar, z=z_estimate,
\* lines=selected_lines), up to the first iteration
PipelineFitMultipleLines ==
    /\ pcM = "idle"
    /\ \E req \in PipelineRequests :
          /\ request' = req
          /\ lines' = ResolveLines(req)
    /\ loopIdx' = 0
    /\ results' = EmptyResults
    /\ pcM' = "loop"
    /\ UNCHANGED <<pending, fitLog, memo, tasks, raisedM>>
    /\ UNCHANGED <<fitVars, bptVars, propVars>>

\* page 4, lines 55-58: ratios = calculate_line_ratios(line_fits) on the
\* dict the fit returned
PipelineLineRatios ==
    /\ pcM = "done" /\ pcB = "idle"
    /\ line_results' = results.vals
    /\ ratios' = calculate_line_ratios(results.vals)
    /\ pcB' = "done"
    /\ UNCHANGED <<nii_ha, oiii_hb, numtype, bpt>>
    /\ UNCHANGED <<fitVars, multiVars, propVars>>

NextPipeline ==
    \/ PipelineFitMultipleLines
    \/ LoopSkip
    \/ LoopFit
    \/ LoopStore
    \/ LoopReturn
    \/ PipelineLineRatios

SpecPipeline == PipelineInit /\ [][NextPipeline]_vars

(***************************************************************************)
(* redshift_spectrum (src/utils/spectral_utils.py:154-188).  A float is    *)
(* sign * m * 2^e with a significand m of Precision bits, or zero; every   *)
(* arithmetic operation rounds its exact result to the nearest float,      *)
(* ties to the even significand, as IEEE 754 does.                         *)
(***************************************************************************)
Precision == 5
MaxLen == 2

FloatZero == [s |-> 0, m |-> 0, e |-> 0]

\* the float nearest to n/d * 2^e, for n, d > 0
RoundToFloat(n, d, e) ==
    LET lo == 2 ^ (Precision - 1)
        hi == 2 ^ Precision
        Num(k) == IF k >= 0 THEN n ELSE n * 2 ^ (-k)
        Den(k) == IF k >= 0 THEN d * 2 ^ k ELSE d
        k == CHOOSE j \in (-2 * Precision - 2)..(2 * Precision + 2) :
                 lo * Den(j) <= Num(j) /\ Num(j) < hi * Den(j)
        q == Num(k) \div Den(k)
        r == Num(k) % Den(k)
        m == IF 2 * r > Den(k) \/ (2 * r = Den(k) /\ q % 2 = 1) THEN q + 1 ELSE q
    IN IF m = hi THEN [s |-> 1, m |-> lo, e |-> e + k + 1]
       ELSE [s |-> 1, m |-> m, e |-> e + k]

\* a decimal literal n/d read as a float
Float(n, d) ==
    IF n = 0 THEN FloatZero
    ELSE [RoundToFloat(Abs(n), d, 0) EXCEPT !.s = IF n < 0 THEN -1 ELSE 1]

\* a * b and a / b (b not zero)
FloatMul(a, b) ==
    IF a.s = 0 \/ b.s = 0 THEN FloatZero
    ELSE [RoundToFloat(a.m * b.m, 1, a.e + b.e) EXCEPT !.s = a.s * b.s]

FloatDiv(a, b) ==
    IF a.s = 0 THEN FloatZero
    ELSE [RoundToFloat(a.m, b.m, a.e - b.e) EXCEPT !.s = a.s * b.s]

\* 1 + z for a float z > -1 below 2^Precision
OnePlus(z) ==
    IF z.s = 0 THEN Float(1, 1)
    ELSE IF z.e >= 0 THEN Float(1 + z.s * z.m * 2 ^ z.e, 1)
    ELSE Float(2 ^ (-z.e) + z.s * z.m, 2 ^ (-z.e))

\* the conversion applied in the rest-frame direction whatever to_rest says
redshift_to_rest_only(wl, fl, z, to_rest) ==
    [wavelength |-> [i \in 1..Len(wl) |-> FloatDiv(wl[i], OnePlus(z))],
     flux |-> [i \in 1..Len(fl) |-> FloatMul(fl[i], OnePlus(z))]]

\* lines 178-188: the tuple (wave_out, flux_out)
redshift_spectrum(wl, fl, z, to_rest) ==
    IF to_rest
    THEN [wavelength |-> [i \in 1..Len(wl) |-> FloatDiv(wl[i], OnePlus(z))],
          flux |-> [i \in 1..Len(fl) |-> FloatMul(fl[i], OnePlus(z))]]
    ELSE [wavelength |-> [i \in 1..Len(wl) |-> FloatMul(wl[i], OnePlus(z))],
          flux |-> [i \in 1..Len(fl) |-> FloatDiv(fl[i], OnePlus(z))]]

\* wavelengths in Angstrom, flux densities, and redshifts z > -1 in
\* sixteenths
WaveChoices == {Float(3800, 1), Float(4861, 1), Float(6563, 1), Float(8192, 1)}
FluxChoices == {Float(-3, 2), Float(0, 1), Float(7, 1), Float(367, 100)}
RedshiftChoices == {Float(k, 16) : k \in {-8, -3, 0, 1, 2, 5, 16, 21}}

RedshiftCall(z, to_rest) == [fn |-> "redshift_spectrum", z |-> z, to_rest |-> to_rest]

RedshiftInit ==
    /\ \E n \in 0..MaxLen :
          /\ wavelength \in [1..n -> WaveChoices]
          /\ flux \in [1..n -> FluxChoices]
    /\ ivar = <<>>
    /\ call = NoCall /\ outcome = NotCalled /\ ret = NoResult
    /\ raised = "none" /\ solverArgs = NoSolverArgs /\ pc = "idle"
    /\ BptIdle
    /\ MultiIdle
    /\ PropIdle

\* redshift_spectrum(wavelength, flux, z, to_rest=True)
ToRestFrame ==
    /\ pc = "idle"
    /\ \E z \in RedshiftChoices :
          /\ call' = RedshiftCall(z, TRUE)
          /\ ret' = redshift_spectrum(wavelength, flux, z, TRUE)
    /\ pc' = "rest"
    /\ UNCHANGED <<wavelength, flux, ivar, outcome, raised, solverArgs>>
    /\ UNCHANGED <<bptVars, multiVars, propVars>>

\* redshift_spectrum(wave_rest, flux_rest, z, to_rest=False) on the arrays
\* the first call returned
ToObservedFrame ==
    /\ pc = "rest"
    /\ call' = RedshiftCall(call.z, FALSE)
    /\ ret' = redshift_spectrum(ret.wavelength, ret.flux, call.z, FALSE)
    /\ pc' = "observed"
    /\ UNCHANGED <<wavelength, flux, ivar, outcome, raised, solverArgs>>
    /\ UNCHANGED <<bptVars, multiVars, propVars>>

SpecRedshift == RedshiftInit /\ [][ToRestFrame \/ ToObservedFrame]_vars

(***************************************************************************)
(* Specification of the single-line fitter                                 *)
(***************************************************************************)
Init == FitInit /\ BptIdle /\ MultiIdle /\ PropIdle

Next == FitEmissionLineLmfit \/ FitEmissionLine

Spec == Init /\ [][Next]_vars

(***************************************************************************)
(* Claims about the single-line fitter (specification Spec)                *)
(***************************************************************************)
\* the samples of the window of the returned call, by position
CallObs == call.rest * (100 + call.z100)
CallWindowIdx ==
    {i \in 1..Len(wavelength) :
        Abs(wavelength[i] - CallObs) < call.window}

\* the k-th smallest flux of the window, by counting
KthSmallest(idx, k) ==
    CHOOSE v \in {flux[i] : i \in idx} :
        /\ Cardinality({i \in idx : flux[i] < v}) < k
        /\ Cardinality({i \in idx : flux[i] <= v}) >= k

\* twice the median of the window's flux
WindowMedianTwice(idx) ==
    LET n == Cardinality(idx)
    IN KthSmallest(idx, (n + 1) \div 2) + KthSmallest(idx, n \div 2 + 1)

\* a failure record: success false, center = obs, the given continuum,
\* every other numeric field zero
IsFailureRecord(r, nm, obs, continuum) ==
    /\ r.line_name = nm /\ r.success = FALSE
    /\ r.center = obs /\ r.continuum = continuum
    /\ r.center_err = 0 /\ r.amplitude = 0 /\ r.amplitude_err = 0
    /\ r.sigma = 0 /\ r.sigma_err = 0 /\ r.flux = 0 /\ r.flux_err = 0
    /\ r.ew = 0 /\ r.ew_err = 0 /\ r.snr = 0
    /\ r.velocity = 0 /\ r.velocity_err = 0

\* C1: the single-line fitter never propagates an exception; when the window
\* holds at least 5 samples and the solver fails (does not converge, or
\* raises), the call returns success=false, center = rest*(1+z), continuum =
\* median of the window's flux (held in half units) and zero elsewhere.
C1_SolverFailureIsReturned ==
    pc = "returned" =>
        /\ raised = "none"
        /\ (Cardinality(CallWindowIdx) >= 5
              /\ outcome.kind \in {"notconverged", "raise"})
            => IsFailureRecord(ret, call.line_name, CallObs,
                               WindowMedianTwice(CallWindowIdx))

\* C1 witness: curve_fit raised RuntimeError on an 8-sample ramp window, whose
\* median 4.5 is between two samples
C1_Witness ==
    /\ pc = "returned" /\ call.use_lmfit = FALSE
    /\ outcome.kind = "raise" /\ outcome.exc = "RuntimeError"
    /\ Cardinality(CallWindowIdx) = 8
    /\ ret.continuum = 9 /\ ret.success = FALSE

\* C2: with fewer than 5 samples in the window the fitter returns, without
\* raising and without calling the solver, success=false, center =
\* rest*(1+z) and zero in every other numeric field, continuum included.
C2_TooFewSamples ==
    (pc = "returned" /\ Cardinality(CallWindowIdx) < 5) =>
        /\ raised = "none"
        /\ outcome.kind = "none"
        /\ solverArgs = NoSolverArgs
        /\ IsFailureRecord(ret, call.line_name, CallObs, 0)

\* C2 witness: a call at z = 0.35 whose window holds exactly 4 samples
C2_Witness ==
    /\ pc = "returned" /\ Cardinality(CallWindowIdx) = 4
    /\ call.z100 = 35 /\ ret.center = CallObs /\ ret.success = FALSE

\* C3 (as claimed): every successful result of the single-line fitter, on
\* either path, has amplitude >= 0 and 0.5 <= sigma <= 15 Angstrom.
C3_PositivityAllPaths ==
    (pc = "returned" /\ raised = "none" /\ ret.success) =>
        /\ ret.amplitude >= 0
        /\ ret.sigma >= 5 /\ ret.sigma <= 150

(***************************************************************************)
(* Claims about classify_object_bpt (specification SpecClassify)           *)
(***************************************************************************)
\* y < 0.61/(x - pole) + offset, cleared of the division by the sign of
\* x - pole (all in thousandths; 0.61 becomes 610000 after clearing)
BelowCurve(x, y, pole, offset) ==
    IF x > pole THEN (y - offset) * (x - pole) < 610000
    ELSE (y - offset) * (x - pole) > 610000

\* y > 1.89 x + 0.76
AboveLiner(x, y) == 1000 * y > 1890 * x + 760000

\* the decision list of the claim, first match wins
ReferenceLabel(x, y) ==
    IF BelowCurve(x, y, 50, 1300) THEN "Star-forming"
    ELSE IF BelowCurve(x, y, 470, 1190) THEN "Composite"
    ELSE IF AboveLiner(x, y) THEN "AGN (Seyfert)"
    ELSE "LINER"

FourLabels == {"Star-forming", "Composite", "AGN (Seyfert)", "LINER"}

C5_StarFormingAsClaimed ==
    (pcB = "done" /\ nii_ha = -300 /\ oiii_hb = 0) =>
        /\ LessThan(0, kauffmann03_line(-300))
        /\ bpt.label = "Star-forming"

\* C5 (amended): y_kauff(-0.3) = 0.61/(-0.35) + 1.3 is about -0.443, so the
\* point (-0.3, 0.0) lies above the Kauffmann boundary and below the Kewley
\* boundary and classifies as Composite; (-0.3, 1.0) is classified as
\* Composite, AGN (Seyfert) or LINER.
C5_CompositeAtMinusPointThree ==
    /\ LET k == kauffmann03_line(-300)
       IN -443 * k.d <= k.n /\ k.n < -442 * k.d
    /\ (pcB = "done" /\ nii_ha = -300 /\ oiii_hb = 0)
          => bpt.label = "Composite"
    /\ (pcB = "done" /\ nii_ha = -300 /\ oiii_hb = 1000)
          => bpt.label \in {"Composite", "AGN (Seyfert)", "LINER"}

\* C5 witness: the call on (-0.3, 0.0) has answered Composite
C5_Witness ==
    /\ pcB = "done" /\ nii_ha = -300 /\ oiii_hb = 0
    /\ bpt.label = "Composite"

(***************************************************************************)
(* Claims about calculate_line_ratios (specification SpecRatios)           *)
(***************************************************************************)
\* both lines present, fitted with success, with positive flux
BothSucceeded(lr, a, b) ==
    /\ a \in DOMAIN lr /\ b \in DOMAIN lr
    /\ lr[a].success /\ lr[b].success
    /\ lr[a].flux > 0 /\ lr[b].flux > 0

IsFailedFit(lr, nm) == nm \in DOMAIN lr /\ ~lr[nm].success /\ lr[nm].flux = 0

\* C7 (as claimed): when either SII component is a failed fit (success =
\* false, flux 0) the key SII_Ha is absent, even if the other component has
\* positive flux.
C7_SIIOnlyIfBothSucceeded ==
    (pcB = "done"
       /\ (IsFailedFit(line_results, "SII_6716")
             \/ IsFailedFit(line_results, "SII_6731")))
        => "SII_Ha" \notin DOMAIN ratios

(***************************************************************************)
(* Batch fit                                                               *)
(***************************************************************************)
RequestedNames ==
    IF request.linesNone THEN DOMAIN EMISSION_LINES ELSE Range(request.lines)

\* C8: the dict fit_multiple_lines returns has as keys exactly the requested
\* names that are keys of EMISSION_LINES (every registry name when lines is
\* None); a name outside the registry, an absorption line included, is
\* skipped without an error; and the value under each key carries that key
\* as its line_name.
C8_KeysAreRequestedRegistryNames ==
    /\ raisedM = "none" /\ pcM # "raised"
    /\ pcM = "done" =>
          /\ Range(results.keys) = RequestedNames \cap DOMAIN EMISSION_LINES
          /\ DOMAIN results.vals = Range(results.keys)
          /\ \A k \in DOMAIN results.vals : results.vals[k].line_name = k

\* a finished call that was asked for an absorption line, a registry line
\* and an unknown name
C8_Witness ==
    /\ pcM = "done"
    /\ request.lines = <<"CaII_K", "Halpha", "Hzeta">>
    /\ Range(results.keys) = {"Halpha"}
    /\ results.vals["Halpha"].line_name = "Halpha"

\* the positions of the list whose name is in the registry, ascending
RegistryPositions(ls) ==
    Ascending({p \in 1..Len(ls) : ls[p] \in DOMAIN EMISSION_LINES})

\* one fit after the other: start and end of each position in turn
CallsInListOrder(ls) ==
    LET ps == RegistryPositions(ls)
    IN [j \in 1..(2 * Len(ps)) |->
            IF j % 2 = 1 THEN <<"start", ps[(j + 1) \div 2]>>
            ELSE <<"end", ps[j \div 2]>>]

\* the registry names of the list, each at its first occurrence
FirstOccurrences(ls) ==
    LET firsts == Ascending({p \in 1..Len(ls) :
                      /\ ls[p] \in DOMAIN EMISSION_LINES
                      /\ \A q \in 1..(p - 1) : ls[q] # ls[p]})
    IN [j \in 1..Len(firsts) |-> ls[firsts[j]]]

IsPrefix(s, t) == Len(s) <= Len(t) /\ s = SubSeq(t, 1, Len(s))

\* C9: the fits of a batch run one at a time in the order of the list: the
\* fit of an earlier element has returned before the fit of a later one
\* starts; and the returned dict lists its keys in the order in which the
\* names first occur in the list.
C9_SequentialInListOrder ==
    /\ IsPrefix(fitLog, CallsInListOrder(lines))
    /\ pcM = "done" =>
          /\ fitLog = CallsInListOrder(lines)
          /\ results.keys = FirstOccurrences(lines)

\* a finished call whose list names a line twice around another one
C9_Witness ==
    /\ pcM = "done"
    /\ request.lines = <<"NII_6548", "Halpha", "NII_6548">>
    /\ results.keys = <<"NII_6548", "Halpha">>
    /\ fitLog = <<<<"start", 1>>, <<"end", 1>>, <<"start", 2>>, <<"end", 2>>,
                  <<"start", 3>>, <<"end", 3>>>>

\* the solver calls the sequential loop makes on the untouched spectrum
NeededKeys ==
    {SolverKey(BatchWavelength, BatchFlux, BatchIvar, nm, request) :
        nm \in {n \in Range(lines) \cap DOMAIN EMISSION_LINES :
                    CallsSolver(BatchWavelength, n, request)}}

\* the answers the solver has given, as far as the sequential loop asks
AnswersSoFar ==
    [key \in NeededKeys |-> IF key \in DOMAIN memo THEN memo[key] ELSE NotCalled]

\* the value the sequential loop stores under name nm
SequentialValue(nm) ==
    SequentialLoop(<<nm>>, request, BatchWavelength, BatchFlux, BatchIvar,
                   AnswersSoFar).vals[nm]

\* a step changes a slot of the dict only as the store of that slot's fit
OnlyOwnSlot ==
    \A k \in DOMAIN results'.vals :
        \/ k \in DOMAIN results.vals /\ results'.vals[k] = results.vals[k]
        \/ \E p \in DOMAIN tasks :
              /\ lines[p] = k
              /\ tasks[p].pc = "solved" /\ tasks'[p].pc = "stored"
              /\ results'.vals[k] = tasks[p].result

\* C10: run in any order and interleaving, the per-line fits of a batch
\* leave wavelength, flux and ivar as they were and write only their own
\* slot of the result; every slot holds what a fit of that line alone on
\* the spectrum gives with the (deterministic) solver, and the finished
\* batch is the mapping the sequential loop returns.
C10_OrderIndependent ==
    /\ [](/\ raisedM = "none"
          /\ \A k \in DOMAIN results.vals :
                /\ CallsSolver(BatchWavelength, k, request) =>
                      SolverKey(BatchWavelength, BatchFlux, BatchIvar, k, request)
                          \in DOMAIN memo
                /\ results.vals[k] = SequentialValue(k)
          /\ pcM = "done" =>
                /\ NeededKeys \subseteq DOMAIN memo
                /\ results.vals =
                       SequentialLoop(lines, request, BatchWavelength, BatchFlux,
                                      BatchIvar, AnswersSoFar).vals)
    /\ [][/\ wavelength' = wavelength /\ flux' = flux /\ ivar' = ivar
          /\ OnlyOwnSlot]_vars

\* a finished batch whose second fit stored its result before the first
C10_Witness ==
    /\ pcM = "done"
    /\ lines = <<"NII_6548", "Halpha">>
    /\ request.useIvar
    /\ results.keys = <<"Halpha", "NII_6548">>
    /\ results.vals["Halpha"].success /\ results.vals["NII_6548"].success
    /\ results.vals = SequentialLoop(lines, request, BatchWavelength, BatchFlux,
                                     BatchIvar, memo).vals

(***************************************************************************)
(* Registry                                                                *)
(***************************************************************************)
\* C11: whatever calls of fit_emission_line, fit_multiple_lines (lines=None
\* included), calculate_line_ratios, classify_object_bpt, estimate_sfr,
\* calculate_metallicity and estimate_stellar_mass are made, in whatever
\* order, EMISSION_LINES, ABSORPTION_LINES, LINE_PRIORITIES and LINE_COLORS
\* keep the contents they were loaded with.
C11_RegistryImmutable ==
    /\ registry.EMISSION_LINES = EMISSION_LINES
    /\ registry.ABSORPTION_LINES = ABSORPTION_LINES
    /\ registry.LINE_PRIORITIES = LINE_PRIORITIES
    /\ registry.LINE_COLORS = LINE_COLORS

\* three calls made, a batch over the whole registry and a property among them
C11_Witness ==
    /\ ncalls = MaxCalls
    /\ request.linesNone /\ pcM = "done"
    /\ Range(results.keys) = DOMAIN EMISSION_LINES
    /\ pcP = "done" /\ pcB = "done"
    /\ registry = LoadedRegistry

(***************************************************************************)
(* C12.  calculate_metallicity returns None whenever a line the method     *)
(* requires is absent or has flux <= 0.  'pp04_o3n2' requires OIII_5007,   *)
(* Hbeta, NII_6583 and Halpha and never answers with the N2 calibration;   *)
(* 'pp04_n2' requires NII_6583 and Halpha only.                            *)
(***************************************************************************)
RequiredLines(method) ==
    IF method = "pp04_o3n2" THEN {"OIII_5007", "Hbeta", "NII_6583", "Halpha"}
    ELSE IF method = "pp04_n2" THEN {"NII_6583", "Halpha"}
    ELSE {}

Usable(lr, names) == \A nm \in names : nm \in DOMAIN lr /\ lr[nm].flux > 0

MetallicityDone == pcP = "done" /\ propCall.fn = "calculate_metallicity"

C12_MetallicityNoneUnlessRequiredLines ==
    MetallicityDone /\ propCall.method \in {"pp04_o3n2", "pp04_n2"} =>
        LET lr == propCall.line_results
            needed == RequiredLines(propCall.method)
        IN /\ ~Usable(lr, needed) => propRet = NoneValue
           /\ Usable(lr, needed) =>
                 /\ propRet.kind = "dict"
                 /\ propRet.value.method =
                        (IF propCall.method = "pp04_o3n2" THEN "O3N2" ELSE "N2")

\* the O3N2 method asked with only the two lines of the N2 method usable
C12_Witness ==
    /\ MetallicityDone /\ propCall.method = "pp04_o3n2"
    /\ Usable(propCall.line_results, RequiredLines("pp04_n2"))
    /\ "OIII_5007" \notin DOMAIN propCall.line_results
    /\ propRet = NoneValue

(***************************************************************************)
(* C13.  With method 'pp04_o3n2' and four positive fluxes the result is    *)
(* 12+log(O/H) = 8.73 - 0.32 * O3N2, O3N2 being                            *)
(* log10((OIII_5007/Hbeta)/(NII_6583/Halpha)); O3N2 = 1.0 gives 8.41.      *)
(***************************************************************************)
C13_O3N2Arithmetic ==
    /\ MetallicityDone /\ propCall.method = "pp04_o3n2"
    /\ Usable(propCall.line_results, RequiredLines("pp04_o3n2"))
    => LET lr == propCall.line_results
           o3n2 == Log10Milli[lr["OIII_5007"].flux] - Log10Milli[lr["Hbeta"].flux]
                   - Log10Milli[lr["NII_6583"].flux] + Log10Milli[lr["Halpha"].flux]
       IN /\ propRet.kind = "dict"
          /\ propRet.value.oh = 8730000 - 320 * o3n2
          /\ o3n2 = 1000 => propRet.value.oh = 8410000

\* a ratio of ratios of exactly ten, answered with 8.41
C13_Witness ==
    /\ MetallicityDone /\ propCall.method = "pp04_o3n2"
    /\ Usable(propCall.line_results, RequiredLines("pp04_o3n2"))
    /\ propCall.line_results["OIII_5007"].flux * propCall.line_results["Halpha"].flux
          = 10 * propCall.line_results["Hbeta"].flux * propCall.line_results["NII_6583"].flux
    /\ propRet = DictValue([oh |-> 8410000, method |-> "O3N2"])

(***************************************************************************)
(* C14.  At z = 0 estimate_sfr takes the luminosity distance to be ten     *)
(* parsec in cm: L_ha = ha_flux * 4 pi d^2 with d = 10 pc.                 *)
(***************************************************************************)
\* ten parsec in cm: 1 pc = 3.086e18 cm
TenParsecCm == Distance(3086, 16)

SfrDone == pcP = "done" /\ propCall.fn = "estimate_sfr"

C14_TenParsecAtZeroRedshift ==
    SfrDone /\ propCall.z100 = 0 =>
        propRet.value.L_ha = HaLuminosity(propCall.ha_flux, TenParsecCm)

(***************************************************************************)
(* C15.  The two calibrations differ in the constant only: on the same     *)
(* ha_flux, ha_flux_err and z, 'kennicutt98' and 'kennicutt12' give the    *)
(* same L_ha and the same sfr_err / sfr, and sfr is 7.9e-42 * L_ha and     *)
(* 5.5e-42 * L_ha.                                                         *)
(***************************************************************************)
\* a / b for b # 0
QuantityRatio(a, b) ==
    LET sgn == IF b.n < 0 THEN -1 ELSE 1
    IN Quantity(sgn * a.n * b.d, sgn * a.d * b.n, a.e - b.e, a.pi - b.pi,
                a.dlpow - b.dlpow, a.dl)

SameRelativeError(r, s) ==
    IF r.sfr.n = 0 \/ s.sfr.n = 0
    THEN r.sfr.n = s.sfr.n /\ r.sfr_err = s.sfr_err
    ELSE QuantityRatio(r.sfr_err, r.sfr) = QuantityRatio(s.sfr_err, s.sfr)

C15_CalibrationsDifferInConstantOnly ==
    SfrDone /\ propCall.method \in {"kennicutt98", "kennicutt12"} =>
        LET other == IF propCall.method = "kennicutt98" THEN "kennicutt12"
                     ELSE "kennicutt98"
            here == propRet.value
            there == estimate_sfr(propCall.ha_flux, propCall.ha_flux_err,
                                  propCall.z100, other).value
            k98 == IF propCall.method = "kennicutt98" THEN here ELSE there
            k12 == IF propCall.method = "kennicutt98" THEN there ELSE here
        IN /\ k98.L_ha = k12.L_ha
           /\ SameRelativeError(k98, k12)
           /\ k98.sfr = Scale(k98.L_ha, 79, 1, -43)
           /\ k12.sfr = Scale(k12.L_ha, 55, 1, -43)

\* the later calibration on a positive flux with an error, at z = 0.1
C15_Witness ==
    /\ SfrDone /\ propCall.method = "kennicutt12"
    /\ propCall.ha_flux = Flux(1, -14) /\ propCall.ha_flux_err = FluxErrGiven(1, -15)
    /\ propCall.z100 = 10
    /\ propRet.value.sfr = Scale(propRet.value.L_ha, 55, 1, -43)
    /\ QuantityRatio(propRet.value.sfr_err, propRet.value.sfr) = Quantity(1, 10, 0, 0, 0, NoDistance)

(***************************************************************************)
(* C16.  A derived property is None, not zero or another default number,   *)
(* when an input it needs is missing: the metallicity with a required line *)
(* missing, the SFR error when ha_flux_err is not given or ha_flux <= 0,   *)
(* the stellar mass when the method is not one of the two calibrations.    *)
(***************************************************************************)
MassDone == pcP = "done" /\ propCall.fn = "estimate_stellar_mass"

C16_AbsentWhenInputMissing ==
    /\ MetallicityDone /\ propCall.method \in {"pp04_o3n2", "pp04_n2"}
       /\ ~Usable(propCall.line_results, RequiredLines(propCall.method))
       => propRet = NoneValue
    /\ SfrDone /\ (~propCall.ha_flux_err.given \/ propCall.ha_flux.n <= 0)
       => propRet.value.sfr_err = NoneValue
    /\ MassDone /\ propCall.method \notin {"taylor11", "bell03"}
       => propRet = NoneValue

(***************************************************************************)
(* C17.  In calculate_line_ratios, with the positive fluxes of both lines  *)
(* fixed and flux errors >= 0, a larger flux_err of either line never      *)
(* gives a smaller NII_Ha_err (resp. OIII_Hb_err).                         *)
(***************************************************************************)
\* the mapping with one line's flux_err replaced
WithFluxErr(lr, nm, fe) == [lr EXCEPT ![nm].flux_err = fe]

RatioErrKey(nm) ==
    IF nm \in {"NII_6583", "Halpha"} THEN "NII_Ha_err" ELSE "OIII_Hb_err"

C17_RatioErrorMonotone ==
    pcB = "done" =>
        \A nm \in RatioErrLines :
            \A more \in (line_results[nm].flux_err + 1)..(MaxErr + 1) :
                calculate_line_ratios(WithFluxErr(line_results, nm, more))[RatioErrKey(nm)]
                    >= ratios[RatioErrKey(nm)]

\* a call whose error is strictly above the one with a smaller [NII] error
C17_Witness ==
    /\ pcB = "done"
    /\ line_results["NII_6583"].flux_err = 2 /\ line_results["Halpha"].flux_err = 1
    /\ ratios["NII_Ha_err"] >
          calculate_line_ratios(WithFluxErr(line_results, "NII_6583", 1))["NII_Ha_err"]
    /\ ratios["OIII_Hb_err"] >= 0

(***************************************************************************)
(* C18.  classify_object_bpt called with x at a pole of a boundary curve   *)
(* (0.05 for Kauffmann, 0.47 for Kewley) does not raise and returns one of *)
(* the four labels, for a plain float as well as for a numpy scalar.       *)
(***************************************************************************)
C18_NoRaiseAtPole ==
    pcB = "done" /\ nii_ha \in {50, 470} =>
        bpt.raised = "none" /\ bpt.label \in FourLabels

(***************************************************************************)
(* C19.  For successful results with fluxes Halpha = 1.0e-14,              *)
(* Hbeta = 3.0e-15, OIII_5007 = 2e-15 and NII_6583 = 2e-15,                *)
(* calculate_line_ratios gives NII_Ha = -0.699 and OIII_Hb = -0.176, and   *)
(* classify_object_bpt on that pair returns the label of the decision      *)
(* order for (-0.699, -0.176) on every evaluation, whatever was called     *)
(* before.                                                                 *)
(***************************************************************************)
WorkedExample ==
    [nm \in {"Halpha", "Hbeta", "OIII_5007", "NII_6583"} |->
        Fitted(nm, TRUE,
               IF nm = "Halpha" THEN 10 ELSE IF nm = "Hbeta" THEN 3 ELSE 2, 1)]

C19_WorkedExampleDeterministic ==
    /\ line_results = WorkedExample =>
          /\ "NII_Ha" \in DOMAIN ratios /\ ratios["NII_Ha"] = -699
          /\ "OIII_Hb" \in DOMAIN ratios /\ ratios["OIII_Hb"] = -176
    /\ pcB = "done" /\ nii_ha = -699 /\ oiii_hb = -176 =>
          bpt = Label(ReferenceLabel(-699, -176))

\* the worked example classified after its ratios, in a session that also
\* ran a batch of fits
C19_Witness ==
    /\ line_results = WorkedExample
    /\ pcB = "done" /\ nii_ha = ratios["NII_Ha"] /\ oiii_hb = ratios["OIII_Hb"]
    /\ bpt = Label("Star-forming")
    /\ pcM = "done" /\ ncalls >= 3

(***************************************************************************)
(* C20.  For a synthetic spectrum continuum + A exp(-(x-mu)^2/(2 sigma^2)) *)
(* + noise with S/N >= 10 the fitter succeeds and the LineResult's         *)
(* amplitude, center and sigma recover the injected peak height A,         *)
(* position mu and width sigma within a few noise sigma (five times the    *)
(* noise for the amplitude, one sample spacing for the center, 1 A for the *)
(* width).                                                                 *)
(***************************************************************************)
C20_RoundTripRecovers ==
    LET noise == 2
        few == 5
    IN pc = "returned" /\ injected.given /\ injected.A >= 10 * noise =>
          /\ ret.success
          /\ Abs(ret.amplitude - FluxScale * injected.A) <= few * FluxScale * noise
          /\ Abs(ret.center - injected.mu) <= SynthStep
          /\ Abs(ret.sigma - injected.sigma) <= 10

(***************************************************************************)
(* C21.  The fit window is the closed interval [obs - window,              *)
(* obs + window]: a sample exactly at obs - window or obs + window is      *)
(* selected and counts toward the minimum of 5 samples.                    *)
(***************************************************************************)
ClosedWindow(wl, obs, window) ==
    {i \in 1..Len(wl) : wl[i] >= obs - window /\ wl[i] <= obs + window}

C21_WindowClosed ==
    pc = "returned" =>
        LET closed == ClosedWindow(wavelength, CallObs, call.window)
        IN /\ Cardinality(closed) >= MinWindowSamples =>
                 /\ outcome # NotCalled
                 /\ solverArgs.x = Take(wavelength, closed)
           /\ Cardinality(closed) < MinWindowSamples => outcome = NotCalled

(***************************************************************************)
(* C22.  Every sample the window selects keeps a fit weight sqrt(ivar), a  *)
(* zero or non-finite weight being replaced by a small positive epsilon:   *)
(* the weights handed to the solver are finite and > 0 and as many as the  *)
(* window samples, on the lmfit path and on the use_lmfit=False path.      *)
(***************************************************************************)
C22_WeightsFiniteAndPositive ==
    pc = "returned" /\ outcome # NotCalled /\ call.useIvar =>
        /\ Len(solverArgs.weights) = Cardinality(CallWindowIdx)
        /\ \A i \in 1..Len(solverArgs.weights) :
              solverArgs.weights[i].fin /\ solverArgs.weights[i].m > 0

(***************************************************************************)
(* C23.  When the window holds samples whose flux is NaN or infinite, the  *)
(* fitter floors the weights of those samples to the small epsilon and     *)
(* keeps them in the fitted arrays: wavelength, flux and weights stay      *)
(* aligned and equally long.                                               *)
(***************************************************************************)
C23_NonFiniteFluxFloored ==
    pc = "returned" /\ outcome # NotCalled =>
        /\ Len(solverArgs.x) = Cardinality(CallWindowIdx)
        /\ Len(solverArgs.data) = Len(solverArgs.x)
        /\ Len(solverArgs.weights) = Len(solverArgs.x)
        /\ \A i \in 1..Len(solverArgs.data) :
              NonFinite(solverArgs.data[i]) => solverArgs.weights[i] = Weight(1, -10)

(***************************************************************************)
(* C24.  The centre bound keeps a fit on its own line: every successful    *)
(* fit has |center - obs| <= 10 A, and the interval [obs - 10, obs + 10]   *)
(* of the fitted line holds the expected observed wavelength rest * (1+z)  *)
(* of no other emission line of the registry.                              *)
(***************************************************************************)
C24_CentreBoundIsolatesLine ==
    pc = "returned" /\ ret.success =>
        /\ Abs(ret.center - CallObs) <= 10 * Angstrom
        /\ \A other \in DOMAIN EMISSION_LINES \ {call.line_name} :
              Abs(ObsWavelength(EMISSION_LINES[other], call.z100) - CallObs)
                  > 10 * Angstrom

(***************************************************************************)
(* C25.  For every successful fit the equivalent width equals              *)
(* -integrated_flux / continuum, the continuum being the fitted one at the *)
(* fitted centre, whatever the sign of that continuum.                     *)
(***************************************************************************)
C25_EquivalentWidthAnySign ==
    pc = "returned" /\ ret.success /\ ret.continuum # 0 =>
        ret.ew = -((ret.flux * 10) \div ret.continuum)

(***************************************************************************)
(* C26.  In the output of calculate_line_ratios the key NII_Ha_err is      *)
(* present exactly when NII_Ha is, and OIII_Hb_err exactly when OIII_Hb    *)
(* is, for every input mapping.                                            *)
(***************************************************************************)
C26_RatioComesWithError ==
    pcB = "done" =>
        /\ "NII_Ha" \in DOMAIN ratios <=> "NII_Ha_err" \in DOMAIN ratios
        /\ "OIII_Hb" \in DOMAIN ratios <=> "OIII_Hb_err" \in DOMAIN ratios

\* a mapping that yields [NII]/Halpha with its error and no [OIII]/Hbeta
C26_Witness ==
    /\ pcB = "done"
    /\ {"NII_Ha", "NII_Ha_err"} \subseteq DOMAIN ratios
    /\ "OIII_5007" \in DOMAIN line_results /\ "Hbeta" \notin DOMAIN line_results
    /\ DOMAIN ratios \cap {"OIII_Hb", "OIII_Hb_err"} = {}

(***************************************************************************)
(* C27.  For every fixed x off the two poles classify_object_bpt is        *)
(* monotone in y under the order Star-forming < Composite < LINER <        *)
(* AGN (Seyfert): a larger y never gives a smaller label.                  *)
(***************************************************************************)
LabelOrder == <<"Star-forming", "Composite", "LINER", "AGN (Seyfert)">>
LabelRank(l) == CHOOSE k \in 1..Len(LabelOrder) : LabelOrder[k] = l

C27_MonotoneInY ==
    pcB = "done" /\ nii_ha \notin {50, 470} =>
        \A y \in YValues :
            y >= oiii_hb =>
                LabelRank(classify_object_bpt(nii_ha, y, numtype).label)
                    >= LabelRank(bpt.label)

\* a LINER point with a Composite point below it and a Seyfert point above
C27_Witness ==
    /\ pcB = "done" /\ nii_ha \notin {50, 470}
    /\ bpt = Label("LINER")
    /\ \E lo, hi \in YValues :
          /\ lo < oiii_hb /\ oiii_hb < hi
          /\ classify_object_bpt(nii_ha, lo, numtype) = Label("Composite")
          /\ classify_object_bpt(nii_ha, hi, numtype) = Label("AGN (Seyfert)")

(***************************************************************************)
(* C28.  In any mapping produced by fit_multiple_lines on the default      *)
(* (lmfit) path every result with success=false has flux 0, and            *)
(* amplitude, sigma, the errors, ew, snr and velocity 0 as well; so        *)
(* calculate_line_ratios on that mapping emits NII_Ha, OIII_Hb or OI_Ha    *)
(* only when both of its lines have success=true.                          *)
(***************************************************************************)
ZeroedFields ==
    {"center_err", "amplitude", "amplitude_err", "sigma", "sigma_err",
     "flux", "flux_err", "ew", "ew_err", "snr", "velocity", "velocity_err"}

RatioLines ==
    [NII_Ha |-> {"NII_6583", "Halpha"}, OIII_Hb |-> {"OIII_5007", "Hbeta"},
     OI_Ha |-> {"OI_6300", "Halpha"}]

C28_FailedFitsGateRatios ==
    /\ \A nm \in DOMAIN results.vals :
          ~results.vals[nm].success =>
              \A f \in ZeroedFields : results.vals[nm][f] = 0
    /\ pcB = "done" =>
          \A key \in DOMAIN RatioLines :
              key \in DOMAIN ratios =>
                  \A nm \in RatioLines[key] :
                      nm \in DOMAIN line_results /\ line_results[nm].success

\* the default selection: [NII]/Halpha emitted from two good fits, and a
\* good Halpha next to a failed line emitting nothing
C28_Witness ==
    /\ pcB = "done"
    /\ DOMAIN line_results = {"Halpha", "Hbeta", "OIII_5007", "NII_6583"}
    /\ line_results["Halpha"].success /\ line_results["NII_6583"].success
    /\ ~line_results["Hbeta"].success /\ ~line_results["OIII_5007"].success
    /\ "NII_Ha" \in DOMAIN ratios
    /\ DOMAIN ratios \cap {"OIII_Hb", "OI_Ha"} = {}

(***************************************************************************)
(* C29.  Every LineResult with success=true that fit_emission_line_lmfit   *)
(* returns has flux >= 0 and ew <= 0, and its center_err, amplitude_err,   *)
(* sigma_err, flux_err, ew_err and velocity_err are numbers (never None)   *)
(* and >= 0; a stderr the solver left out is reported as 0.                *)
(***************************************************************************)
ErrorFields ==
    {"center_err", "amplitude_err", "sigma_err", "flux_err", "ew_err",
     "velocity_err"}

C29_SuccessfulLmfitResultSigns ==
    pc = "returned" /\ call.use_lmfit /\ ret.success =>
        /\ ret.flux >= 0 /\ ~NonFinite(ret.flux)
        /\ ret.ew <= 0
        /\ \A f \in ErrorFields : ret[f] >= 0 /\ ~NonFinite(ret[f])
        /\ ~outcome.hasErr =>
              /\ ret.center_err = 0 /\ ret.amplitude_err = 0
              /\ ret.sigma_err = 0 /\ ret.flux_err = 0
              /\ ret.ew_err = 0 /\ ret.velocity_err = 0

\* a converged fit without stderr, with a positive flux over a positive
\* continuum
C29_Witness ==
    /\ pc = "returned" /\ call.fn = "fit_emission_line_lmfit"
    /\ ret.success /\ ~outcome.hasErr
    /\ ret.flux > 0 /\ ret.ew < 0 /\ ret.center_err = 0

(***************************************************************************)
(* C30.  For every z > -1, redshift_spectrum(..., to_rest=True) followed   *)
(* by redshift_spectrum(..., to_rest=False) with the same z returns the    *)
(* original wavelength and flux arrays, and the array lengths are          *)
(* unchanged.                                                              *)
(***************************************************************************)
C30_RoundTripExact ==
    pc = "observed" => ret.wavelength = wavelength /\ ret.flux = flux

\* the float next above and next below a non-zero float, in magnitude
FloatAbove(a) ==
    IF a.m = 2 ^ Precision - 1
    THEN [a EXCEPT !.m = 2 ^ (Precision - 1), !.e = a.e + 1]
    ELSE [a EXCEPT !.m = a.m + 1]

FloatBelow(a) ==
    IF a.m = 2 ^ (Precision - 1)
    THEN [a EXCEPT !.m = 2 ^ Precision - 1, !.e = a.e - 1]
    ELSE [a EXCEPT !.m = a.m - 1]

Neighbours(a) == IF a.s = 0 THEN {a} ELSE {a, FloatAbove(a), FloatBelow(a)}

\* C30 as the code has it: the lengths are unchanged and every element
\* comes back as the original float or one of its two neighbours
C30_RoundTripWithinRounding ==
    pc = "observed" =>
        /\ Len(ret.wavelength) = Len(wavelength) /\ Len(ret.flux) = Len(flux)
        /\ \A i \in 1..Len(wavelength) : ret.wavelength[i] \in Neighbours(wavelength[i])
        /\ \A i \in 1..Len(flux) : ret.flux[i] \in Neighbours(flux[i])

\* a round trip that returns one wavelength exactly and moves another
C30_Witness ==
    /\ pc = "observed" /\ call.z.s # 0 /\ Len(wavelength) = 2
    /\ ret.wavelength[1] = wavelength[1]
    /\ ret.wavelength[2] # wavelength[2]

====
